---------------------------- MODULE Spec2Model ----------------------------
(***************************************************************************)
(* Verification model of the omnia host runtime:                           *)
(*   - the default WebSocket fan-out server                                *)
(*       crates/wasi-websocket/src/host/default_impl.rs                    *)
(*   - the per-event dispatcher                                            *)
(*       crates/wasi-websocket/src/host/server.rs                          *)
(*   - the in-memory key-value backend                                     *)
(*       crates/wasi-keyvalue/src/host/default_impl.rs                     *)
(***************************************************************************)
EXTENDS Integers, Sequences, FiniteSets, TLC

(***************************************************************************)
(* Program constants.                                                      *)
(***************************************************************************)
MAX_CONNECTIONS == 1024
CHANNEL_BUFFER == 256
BUS_CAPACITY == 256

(***************************************************************************)
(* Bounds of the model.                                                    *)
(***************************************************************************)
\* peer socket addresses followed one by one
NumAddrs == 2
\* TCP connections accepted during a run (one spawned task each)
NumTasks == 2
\* ConnectionMap entries of peers that are not followed one by one range over
\* MAX_CONNECTIONS - OthersWindow .. MAX_CONNECTIONS on a loaded server
OthersWindow == 2
\* queued outbound messages per peer (Spec)
MaxQueue == 1
\* events waiting in the dispatcher's subscription (Spec)
MaxPending == 2
\* messages followed beyond CHANNEL_BUFFER in the queue of a peer that does
\* not read (SpecBackpressure)
MaxBacklog == 3
\* guest invocations during a run
NumInvs == 2
\* guest invocations that call the key-value store
NumCallers == 2
\* shards of the DashMap that the bucket names fall into
NumShards == 2
\* resources in the table of one store
MaxTable == 2

Addrs == 1..NumAddrs
Tasks == 1..NumTasks
Invs == 1..NumInvs
Groups == {"lobby", "chat"}

\* Option<T>: None is the empty tuple, Some(x) the one-element tuple
None == <<>>
Some(x) == <<x>>

VARIABLES
    connections,  \* ConnectionMap of the followed peers: addr -> Connection
    others,       \* number of ConnectionMap entries of the other peers
    pc,           \* per connection task: position in listen/handle_socket
    addrOf,       \* per connection task: peer_addr while the task lives, else 0
    chan,         \* per connection task: its mpsc channel (tx, rx)
    send,         \* per guest invocation: the WebSocketDefault::send in flight
    pending,      \* events the dispatcher's subscription has not received yet
    lagged,       \* the subscription missed events (next recv is Lagged)
    run,          \* server::run: "subscribing", "looping" or "returned"
    inv,          \* per guest invocation: position in Handler::handle and its event
    table,        \* per guest invocation: the ResourceTable of its store
    lastSub,      \* history: per connection task, its subscribe frames
    frame,        \* history: the latest inbound text or binary frame
    seen,         \* history: the frames received per task and the events published
    store,        \* KeyValueDefault::store: bucket name -> (key -> value)
    shardOf,      \* the DashMap shard that the hasher gives each bucket name
    call,         \* per key-value caller: the Bucket call in flight
    last,         \* history: per bucket and key, the value of the latest set
                  \* that no delete followed, if any
    flt,          \* the Filter that the guest is putting together, if any
    onCall,       \* history: the filter and the table of the on that made flt
    builder,      \* the Select/Insert/Update/Delete builder of the guest, if any
    given,        \* history: the arguments of the calls made on the builder
    query,        \* what the latest build returned, if any
    decoded,      \* the latest from_row: the entity, the row and the result
    http          \* HttpDefault::send_request in flight: request, upstream, outcome

wsvars == <<connections, others, pc, addrOf, chan, send, pending, lagged, run, inv, table>>
hist == <<lastSub, frame, seen>>
kvvars == <<store, shardOf, call, last>>
ormvars == <<flt, onCall, builder, given, query, decoded>>
libvars == <<ormvars, http>>
vars == <<wsvars, hist, kvvars, libvars>>

\* no filter, no builder and no query yet
OrmInit ==
    /\ flt = None
    /\ onCall = None
    /\ builder = None
    /\ given = None
    /\ query = None
    /\ decoded = None

\* what the ORM and what send_request leave alone
nonorm == <<wsvars, hist, kvvars, http>>
nonhttp == <<wsvars, hist, kvvars, ormvars>>

IdleHttp == [pc |-> "idle", egress |-> << >>, upstream |-> << >>, response |-> None, error |-> ""]

LibInit == OrmInit /\ http = IdleHttp


(***************************************************************************)
(* Inbound frames.  A text frame is named by its text; Json gives what     *)
(* serde_json::from_str makes of it.  An array element is <<"str", s>> or  *)
(* <<"num", n>>; groups is None when the object has no "groups" array.     *)
(***************************************************************************)
NotJson == [json |-> FALSE, type |-> "", groups |-> None]

JsonObj(t, g) == [json |-> TRUE, type |-> t, groups |-> g]

Str(s) == <<"str", s>>

SubscribeTexts ==
    {"sub[lobby]", "sub[chat]", "sub[lobby,chat]", "sub[]", "sub[lobby,7]"}

PayloadTexts == {"hello", "sub-without-groups", "msg[lobby]"}

TextFrames == SubscribeTexts \cup PayloadTexts

BinaryFrames == {"bin", "sub[lobby]"}

\* payloads a guest makes up for Event::new
GuestData == {"hi"}

Json(text) ==
    CASE text = "sub[lobby]" -> JsonObj("subscribe", Some(<<Str("lobby")>>))
      [] text = "sub[chat]" -> JsonObj("subscribe", Some(<<Str("chat")>>))
      [] text = "sub[lobby,chat]" -> JsonObj("subscribe", Some(<<Str("lobby"), Str("chat")>>))
      [] text = "sub[]" -> JsonObj("subscribe", Some(<<>>))
      [] text = "sub[lobby,7]" -> JsonObj("subscribe", Some(<<Str("lobby"), <<"num", "7">>>>))
      [] text = "sub-without-groups" -> JsonObj("subscribe", None)
      [] text = "msg[lobby]" -> JsonObj("message", Some(<<Str("lobby")>>))
      [] OTHER -> NotJson

IsSubscribe_any_type(text) ==
    /\ Json(text).json
    /\ Json(text).groups # None

\* the three conditions of the `if let` chain of handle_socket
IsSubscribe(text) ==
    /\ Json(text).json
    /\ Json(text).type = "subscribe"
    /\ Json(text).groups # None

\* groups.iter().filter_map(|g| g.as_str().map(String::from)).collect()
GroupSet(text) ==
    LET arr == Json(text).groups[1]
    IN  {arr[n][2] : n \in {m \in 1..Len(arr) : arr[m][1] = "str"}}

\* InMemEvent { data, group: None }; from is history: the task, the number
\* of the frame and the number of the event on the bus, where a
\* specification keeps them
InMemEvent(data) == [data |-> data, group |-> None, from |-> None]

\* Message::Binary(data.into())
Binary(data) == [kind |-> "Binary", data |-> data]

(***************************************************************************)
(* The per-peer outbound channel, futures_channel::mpsc::channel(256).     *)
(* A Sender is [chan, maybe_parked]; every clone starts unparked and owns  *)
(* one guaranteed slot on top of the buffer.                               *)
(***************************************************************************)
NoChannel == [queue |-> <<>>, open |-> FALSE]

\* mpsc::channel(256): an empty queue, the receiver alive
NewChannel == [queue |-> <<>>, open |-> TRUE]

\* c.sender.clone()
CloneSender(t) == [chan |-> t, maybe_parked |-> FALSE]

\* Sender::try_send: "Full" for a parked sender, "Disconnected" once the
\* receiver is gone, the message pushed otherwise
TrySend(sender, c) ==
    IF sender.maybe_parked THEN "Full"
    ELSE IF ~c.open THEN "Disconnected"
    ELSE "Ok"

(***************************************************************************)
(* ConnectionMap.                                                          *)
(***************************************************************************)
\* conns.len()
ConnLen == Cardinality(DOMAIN connections) + others

\* Connection { groups: HashSet::new(), sender: tx }
NewConnection(t) == [groups |-> {}, sender |-> t]

\* conns.insert(peer_addr, connection)
MapInsert(m, a, c) == [x \in DOMAIN m \cup {a} |-> IF x = a THEN c ELSE m[x]]

\* conns.remove(&peer_addr)
MapRemove(m, a) == [x \in DOMAIN m \ {a} |-> m[x]]

Clients_all(conns, groups) ==
    IF groups = None
    THEN {conns[a].sender : a \in DOMAIN conns}
    ELSE {conns[a].sender : a \in {x \in DOMAIN conns : groups[1] \subseteq conns[x].groups}}

\* the target list of send: the senders of all connections, or of those
\* whose groups contain one of the requested groups
Clients(conns, groups) ==
    IF groups = None
    THEN {conns[a].sender : a \in DOMAIN conns}
    ELSE {conns[a].sender : a \in {x \in DOMAIN conns : conns[x].groups \cap groups[1] # {}}}


(***************************************************************************)
(* The send of one guest invocation: the cloned senders it still has to    *)
(* try, and its failure count.                                             *)
(***************************************************************************)
IdleSend == [pc |-> "idle", data |-> "", groups |-> None, clients |-> {},
             failures |-> 0, result |-> ""]

\* a slot no invocation uses.  `after` is history: the invocations that had
\* failed when run spawned this one
FreeInv == [pc |-> "free", kind |-> "", event |-> None, after |-> {}]

(***************************************************************************)
(* The in-memory key-value backend: a DashMap from bucket names to         *)
(* HashMaps.  Every Bucket method makes one DashMap call, which holds the  *)
(* lock of the shard of the bucket name while it works on the bucket: a    *)
(* read lock for get, a write lock for get_mut and entry.                  *)
(***************************************************************************)
Callers == 1..NumCallers
Shards == 1..NumShards
Buckets == {"a", "b"}
Keys == {"k1", "k2"}
Values == {"v1", "v2"}

\* no call in flight; `open` holds the buckets the caller has a handle of,
\* `prev` is history: the reference value of the key when the call took effect;
\* `wrap`, `ttl` and `ret` belong to a cache set that is made of two calls
IdleCall(open) == [pc |-> "idle", op |-> "", bucket |-> "", key |-> "", value |-> "",
                   snap |-> None, result |-> None, prev |-> None, open |-> open,
                   wrap |-> "", ttl |-> None, ret |-> None]

\* DashMap::get(name) / get_mut(name): the bucket under its guard, if there
StoreGet(st, name) == IF name \in DOMAIN st THEN Some(st[name]) ELSE None

OrDefault_fresh(found) == << >>

\* Entry::or_default: the bucket that is there, else an empty HashMap
OrDefault(found) == IF found = None THEN << >> ELSE found[1]

StorePut_every(st, name, bucket) == [x \in DOMAIN st \cup {name} |-> bucket]

\* the bucket, changed under the write guard, in the DashMap
StorePut(st, name, bucket) ==
    [x \in DOMAIN st \cup {name} |-> IF x = name THEN bucket ELSE st[x]]

\* HashMap::get(key).cloned()
BucketGet(bucket, key) == IF key \in DOMAIN bucket THEN Some(bucket[key]) ELSE None

BucketInsert_keep(bucket, key, value) ==
    [x \in DOMAIN bucket \cup {key} |-> IF x \in DOMAIN bucket THEN bucket[x] ELSE value]

\* HashMap::insert(key, value)
BucketInsert(bucket, key, value) ==
    [x \in DOMAIN bucket \cup {key} |-> IF x = key THEN value ELSE bucket[x]]

BucketRemove_clear(bucket, key) == << >>

\* HashMap::remove(key)
BucketRemove(bucket, key) == [x \in DOMAIN bucket \ {key} |-> bucket[x]]

\* HashMap::contains_key(key)
BucketContains(bucket, key) == key \in DOMAIN bucket

\* HashMap::keys().cloned().collect(), in no particular order
BucketKeys(bucket) == DOMAIN bucket

\* the methods that take the write lock of the shard (entry, get_mut)
IsWrite(op) == op \in {"open", "set", "delete"}

\* the callers that hold a guard of shard sh
Holders(sh) == {c \in Callers : call[c].pc = "locked" /\ shardOf[call[c].bucket] = sh}

CanLock_always(sh, write) == TRUE

\* the shard lock is free for a writer when nobody holds it, for a reader
\* when no writer holds it
CanLock(sh, write) ==
    IF write THEN Holders(sh) = {}
    ELSE \A c \in Holders(sh) : ~IsWrite(call[c].op)

\* the result of a Bucket method on the bucket found under the guard
KvResult(op, found, key) ==
    CASE op = "get" -> IF found = None THEN None ELSE BucketGet(found[1], key)
      [] op = "exists" -> Some(found # None /\ BucketContains(found[1], key))
      [] op = "keys" -> Some(IF found = None THEN {} ELSE BucketKeys(found[1]))
      [] OTHER -> Some("ok")

\* the DashMap after a Bucket method on the bucket found under the guard
KvEffect(st, op, name, found, key, value) ==
    CASE op = "open" -> StorePut(st, name, OrDefault(found))
      [] op = "set" -> StorePut(st, name, BucketInsert(OrDefault(found), key, value))
      [] op = "delete" -> IF found = None THEN st
                          ELSE StorePut(st, name, BucketRemove(found[1], key))
      [] OTHER -> st

\* history: the reference after the call took effect
LastAfter(op, name, key, value) ==
    CASE op = "set" -> [last EXCEPT ![name][key] = Some(value)]
      [] op = "delete" -> [last EXCEPT ![name][key] = None]
      [] OTHER -> last

\* KeyValueDefault::connect_with: an empty DashMap, whose hasher puts the
\* bucket names into shards of S
KvInit(S) ==
    /\ store = << >>
    /\ shardOf \in [Buckets -> S]
    /\ call = [c \in Callers |-> IdleCall({})]
    /\ last = [b \in Buckets |-> [k \in Keys |-> None]]

\* a guest calls a method: open_bucket(name), or a method of a bucket it
\* has opened
KvCall(c, op, name, key, value) ==
    /\ call[c].pc = "idle"
    /\ op = "open" \/ name \in call[c].open
    /\ call' = [call EXCEPT ![c] = [@ EXCEPT !.pc = "called", !.op = op, !.bucket = name,
                                             !.key = key, !.value = value]]
    /\ UNCHANGED <<wsvars, hist, libvars, store, shardOf, last>>

\* the DashMap call takes the guard of the shard and finds the bucket
KvLock(c) ==
    /\ call[c].pc = "called"
    /\ CanLock(shardOf[call[c].bucket], IsWrite(call[c].op))
    /\ call' = [call EXCEPT ![c].pc = "locked", ![c].snap = StoreGet(store, call[c].bucket)]
    /\ UNCHANGED <<wsvars, hist, libvars, store, shardOf, last>>

\* the method works on the bucket and drops the guard
KvApply(c) ==
    /\ call[c].pc = "locked"
    /\ LET q == call[c]
       IN  /\ store' = KvEffect(store, q.op, q.bucket, q.snap, q.key, q.value)
           /\ last' = LastAfter(q.op, q.bucket, q.key, q.value)
           /\ call' = [call EXCEPT ![c] = [@ EXCEPT
                          !.pc = "done",
                          !.snap = None,
                          !.result = KvResult(q.op, q.snap, q.key),
                          !.prev = IF q.key \in Keys THEN last[q.bucket][q.key] ELSE None,
                          !.open = IF q.op = "open" THEN @ \cup {q.bucket} ELSE @]]
    /\ UNCHANGED <<wsvars, hist, libvars, shardOf>>

\* the future resolves: the guest has the result
KvReturn(c) ==
    /\ call[c].pc = "done"
    /\ call[c].wrap = ""
    /\ call' = [call EXCEPT ![c] = IdleCall(@.open)]
    /\ UNCHANGED <<wsvars, hist, libvars, store, shardOf, last>>

KvOpen(c, name) == KvCall(c, "open", name, "", "")
KvGet(c, name, key) == KvCall(c, "get", name, key, "")
KvSet(c, name, key, value) == KvCall(c, "set", name, key, value)
KvDelete(c, name, key) == KvCall(c, "delete", name, key, "")
KvExists(c, name, key) == KvCall(c, "exists", name, key, "")
KvKeys(c, name) == KvCall(c, "keys", name, "", "")

\* the calls of the callers C on the buckets B with the keys K
KvStep(C, B, K) ==
    \E c \in C :
        \/ \E b \in B : KvOpen(c, b)
        \/ \E b \in B, k \in K : KvGet(c, b, k)
        \/ \E b \in B, k \in K, v \in Values : KvSet(c, b, k, v)
        \/ \E b \in B, k \in K : KvDelete(c, b, k)
        \/ \E b \in B, k \in K : KvExists(c, b, k)
        \/ \E b \in B : KvKeys(c, b)
        \/ KvLock(c)
        \/ KvApply(c)
        \/ KvReturn(c)

(***************************************************************************)
(* Initial state: connect_with has built the bus and an empty map and      *)
(* spawned listen; o peers that are not followed one by one are connected. *)
(* The key-value store is initialised apart, by KvInit.                    *)
(***************************************************************************)
NoFrame == [task |-> 0, kind |-> "", payload |-> "", tick |-> 0]

\* no frame received and no event published yet
NoneSeen == [frames |-> [t \in Tasks |-> 0], published |-> 0]

\* no subscribe frame yet: `text` is the latest one, `ever` the groups that
\* any of them named
NoSub == [text |-> "", ever |-> {}]

\* the group strings that a subscribe frame names
ExpectedGroups(text) ==
    CASE text = "sub[lobby]" -> {"lobby"}
      [] text = "sub[chat]" -> {"chat"}
      [] text = "sub[lobby,chat]" -> {"lobby", "chat"}
      [] text = "sub[lobby,7]" -> {"lobby"}
      [] OTHER -> {}

WsInit(o) ==
    /\ connections = << >>
    /\ others = o
    /\ pc = [t \in Tasks |-> "listening"]
    /\ addrOf = [t \in Tasks |-> 0]
    /\ chan = [t \in Tasks |-> NoChannel]
    /\ send = [i \in Invs |-> IdleSend]
    /\ pending = <<>>
    /\ lagged = FALSE
    /\ run = "subscribing"
    /\ inv = [i \in Invs |-> FreeInv]
    /\ table = [i \in Invs |-> << >>]
    /\ lastSub = [t \in Tasks |-> NoSub]
    /\ frame = NoFrame
    /\ seen = NoneSeen

Accept_stops(t, a) ==
    /\ pc[t] = "listening"
    /\ \A u \in Tasks : u < t => pc[u] # "listening"
    /\ \A u \in Tasks : pc[u] # "rejected"
    /\ \A u \in Tasks : addrOf[u] = a => pc[u] \notin {"accepted", "handshaken", "open"}
    /\ pc' = [pc EXCEPT ![t] = "accepted"]
    /\ addrOf' = [addrOf EXCEPT ![t] = a]
    /\ UNCHANGED <<connections, others, chan, send, pending, lagged, run, inv, table, hist, kvvars, libvars>>

(***************************************************************************)
(* listen: accept a TCP connection from `a` and spawn its task.  A peer    *)
(* address is accepted again only once the earlier connection from it has  *)
(* ended.                                                                  *)
(***************************************************************************)
Accept(t, a) ==
    /\ pc[t] = "listening"
    /\ \A u \in Tasks : u < t => pc[u] # "listening"
    /\ \A u \in Tasks : addrOf[u] = a => pc[u] \notin {"accepted", "handshaken", "open"}
    /\ pc' = [pc EXCEPT ![t] = "accepted"]
    /\ addrOf' = [addrOf EXCEPT ![t] = a]
    /\ UNCHANGED <<connections, others, chan, send, pending, lagged, run, inv, table, hist, kvvars, libvars>>

\* accept_async(stream).await is Ok
HandshakeOk(t) ==
    /\ pc[t] = "accepted"
    /\ pc' = [pc EXCEPT ![t] = "handshaken"]
    /\ UNCHANGED <<connections, others, addrOf, chan, send, pending, lagged, run, inv, table, hist, kvvars, libvars>>

\* accept_async(stream).await is Err: "Handshake failed", the task ends
HandshakeFail(t) ==
    /\ pc[t] = "accepted"
    /\ pc' = [pc EXCEPT ![t] = "failed"]
    /\ addrOf' = [addrOf EXCEPT ![t] = 0]
    /\ UNCHANGED <<connections, others, chan, send, pending, lagged, run, inv, table, hist, kvvars, libvars>>

save_socket_off_by_one(conns, len, peer_addr, tx) ==
    IF len > MAX_CONNECTIONS
    THEN [ok |-> FALSE, conns |-> conns]
    ELSE [ok |-> TRUE, conns |-> MapInsert(conns, peer_addr, NewConnection(tx))]

\* save_socket(peer_addr, tx): an error that leaves the map as it is when the
\* map holds MAX_CONNECTIONS entries, else the entry inserted with no groups
save_socket(conns, len, peer_addr, tx) ==
    IF len >= MAX_CONNECTIONS
    THEN [ok |-> FALSE, conns |-> conns]
    ELSE [ok |-> TRUE, conns |-> MapInsert(conns, peer_addr, NewConnection(tx))]

\* handle_socket up to the split: the channel is created and save_socket
\* either registers the peer or fails, which ends the task (rx is dropped)
SaveSocket(t) ==
    /\ pc[t] = "handshaken"
    /\ LET r == save_socket(connections, ConnLen, addrOf[t], t)
       IN  /\ connections' = r.conns
           /\ IF r.ok
              THEN /\ chan' = [chan EXCEPT ![t] = NewChannel]
                   /\ pc' = [pc EXCEPT ![t] = "open"]
                   /\ addrOf' = addrOf
              ELSE /\ chan' = chan
                   /\ pc' = [pc EXCEPT ![t] = "rejected"]
                   /\ addrOf' = [addrOf EXCEPT ![t] = 0]
    /\ UNCHANGED <<others, send, pending, lagged, run, inv, table, hist, kvvars, libvars>>

\* a peer that is not followed one by one registers (its save_socket succeeds)
OtherSaveSocket ==
    /\ others >= MAX_CONNECTIONS - OthersWindow
    /\ ConnLen < MAX_CONNECTIONS
    /\ others' = others + 1
    /\ UNCHANGED <<connections, pc, addrOf, chan, send, pending, lagged, run, inv, table, hist, kvvars, libvars>>

\* a peer that is not followed one by one disconnects and removes its entry
OtherCleanup ==
    /\ others > MAX_CONNECTIONS - OthersWindow
    /\ others' = others - 1
    /\ UNCHANGED <<connections, pc, addrOf, chan, send, pending, lagged, run, inv, table, hist, kvvars, libvars>>

(***************************************************************************)
(* BroadcastBus: broadcast::channel(256) seen from the dispatcher's        *)
(* subscription.  A value sent before the subscription exists is not       *)
(* received by it; a value sent when BUS_CAPACITY values wait overwrites   *)
(* the oldest, and the next recv reports the lag.                          *)
(***************************************************************************)
Publish_front(ev) ==
    IF run # "looping"
    THEN /\ UNCHANGED <<pending, lagged>>
    ELSE IF Len(pending) >= BUS_CAPACITY
         THEN /\ pending' = <<ev>> \o Tail(pending)
              /\ lagged' = TRUE
         ELSE /\ pending' = <<ev>> \o pending
              /\ lagged' = lagged

Publish(ev) ==
    IF run # "looping"
    THEN /\ UNCHANGED <<pending, lagged>>
    ELSE IF Len(pending) >= BUS_CAPACITY
         THEN /\ pending' = Append(Tail(pending), ev)
              /\ lagged' = TRUE
         ELSE /\ pending' = Append(pending, ev)
              /\ lagged' = lagged

\* the model follows at most `cap` waiting events
BusRoom(cap) == run # "looping" \/ Len(pending) < cap

\* server::run: handler.subscriptions() -> socket.subscribe()
Subscribe ==
    /\ run = "subscribing"
    /\ run' = "looping"
    /\ UNCHANGED <<connections, others, pc, addrOf, chan, send, pending, lagged, inv, table, hist, kvvars, libvars>>

(***************************************************************************)
(* handle_socket: the inbound half (incoming.try_for_each).                *)
(***************************************************************************)
SetGroups_union(conns, peer_addr, group_set) ==
    IF peer_addr \in DOMAIN conns
    THEN [conns EXCEPT ![peer_addr].groups = @ \cup group_set]
    ELSE conns

\* conn.groups = group_set, when the map has an entry for peer_addr
SetGroups(conns, peer_addr, group_set) ==
    IF peer_addr \in DOMAIN conns
    THEN [conns EXCEPT ![peer_addr].groups = group_set]
    ELSE conns

\* the event with the history of its frame
Stamp(ev, t, obs) ==
    IF "order" \in obs
    THEN [ev EXCEPT !.from = Some([task |-> t, n |-> seen.frames[t] + 1,
                                   seq |-> seen.published + 1])]
    ELSE ev

\* history kept on a frame of task t; obs names the history variables a
\* specification keeps
Observe(t, kind, payload, obs) ==
    /\ seen' = IF "order" \in obs
               THEN [frames |-> [seen.frames EXCEPT ![t] = @ + 1],
                     published |-> IF kind = "text" /\ IsSubscribe(payload)
                                   THEN seen.published ELSE seen.published + 1]
               ELSE seen
    /\ lastSub' = IF "lastSub" \in obs /\ kind = "text" /\ payload \in SubscribeTexts
                  THEN [lastSub EXCEPT ![t] = [text |-> payload,
                                               ever |-> @.ever \cup ExpectedGroups(payload)]]
                  ELSE lastSub
    /\ frame' = IF "frame" \in obs
                THEN [task |-> t, kind |-> kind, payload |-> payload, tick |-> 1 - frame.tick]
                ELSE frame

TextFrame_all(t, text, cap, obs) ==
    /\ pc[t] = "open"
    /\ IF IsSubscribe(text)
       THEN /\ connections' = [a \in DOMAIN connections |->
                                  [connections[a] EXCEPT !.groups = GroupSet(text)]]
            /\ UNCHANGED <<pending, lagged>>
       ELSE /\ BusRoom(cap)
            /\ Publish(Stamp(InMemEvent(text), t, obs))
            /\ UNCHANGED connections
    /\ Observe(t, "text", text, obs)
    /\ UNCHANGED <<others, pc, addrOf, chan, send, run, inv, table, kvvars, libvars>>

\* Message::Text(text)
TextFrame(t, text, cap, obs) ==
    /\ pc[t] = "open"
    /\ IF IsSubscribe(text)
       THEN /\ connections' = SetGroups(connections, addrOf[t], GroupSet(text))
            /\ UNCHANGED <<pending, lagged>>
       ELSE /\ BusRoom(cap)
            /\ Publish(Stamp(InMemEvent(text), t, obs))
            /\ UNCHANGED connections
    /\ Observe(t, "text", text, obs)
    /\ UNCHANGED <<others, pc, addrOf, chan, send, run, inv, table, kvvars, libvars>>

\* Message::Binary(data)
BinaryFrame(t, data, cap, obs) ==
    /\ pc[t] = "open"
    /\ BusRoom(cap)
    /\ Publish(Stamp(InMemEvent(data), t, obs))
    /\ Observe(t, "binary", data, obs)
    /\ UNCHANGED <<connections, others, pc, addrOf, chan, send, run, inv, table, kvvars, libvars>>

\* Message::Close(frame): Err(ConnectionClosed) ends try_for_each
CloseFrame(t) ==
    /\ pc[t] = "open"
    /\ pc' = [pc EXCEPT ![t] = "closing"]
    /\ UNCHANGED <<connections, others, addrOf, chan, send, pending, lagged, run, inv, table, hist, kvvars, libvars>>

\* the inbound stream ends or fails: the peer disconnected
PeerDisconnect(t) ==
    /\ pc[t] = "open"
    /\ pc' = [pc EXCEPT ![t] = "closing"]
    /\ UNCHANGED <<connections, others, addrOf, chan, send, pending, lagged, run, inv, table, hist, kvvars, libvars>>

(***************************************************************************)
(* handle_socket: the outbound half (rx.map(Ok).forward(outgoing)).        *)
(***************************************************************************)
\* one queued message is written to the peer
Forward(t) ==
    /\ pc[t] = "open"
    /\ chan[t].queue # <<>>
    /\ chan' = [chan EXCEPT ![t].queue = Tail(@)]
    /\ UNCHANGED <<connections, others, pc, addrOf, send, pending, lagged, run, inv, table, hist, kvvars, libvars>>

\* writing a queued message fails: forward ends with the error
ForwardFail(t) ==
    /\ pc[t] = "open"
    /\ chan[t].queue # <<>>
    /\ chan' = [chan EXCEPT ![t].queue = Tail(@)]
    /\ pc' = [pc EXCEPT ![t] = "closing"]
    /\ UNCHANGED <<connections, others, addrOf, send, pending, lagged, run, inv, table, hist, kvvars, libvars>>

\* some Sender of the channel of task t is alive
HasSender(t) ==
    \/ \E a \in DOMAIN connections : connections[a].sender = t
    \/ \E i \in Invs : t \in send[i].clients

\* every Sender is gone and the queue is drained: rx ends, forward completes
ForwardEnds(t) ==
    /\ pc[t] = "open"
    /\ chan[t].queue = <<>>
    /\ ~HasSender(t)
    /\ pc' = [pc EXCEPT ![t] = "closing"]
    /\ UNCHANGED <<connections, others, addrOf, chan, send, pending, lagged, run, inv, table, hist, kvvars, libvars>>

Cleanup_keeps(t) ==
    /\ pc[t] = "closing"
    /\ connections' = connections
    /\ chan' = [chan EXCEPT ![t] = NoChannel]
    /\ pc' = [pc EXCEPT ![t] = "closed"]
    /\ lastSub' = [lastSub EXCEPT ![t] = NoSub]
    /\ addrOf' = [addrOf EXCEPT ![t] = 0]
    /\ UNCHANGED <<others, send, pending, lagged, run, inv, table, frame, seen, kvvars, libvars>>

\* after the select: connections.remove(&peer_addr), then the task returns
\* and drops rx with whatever is still queued
Cleanup(t) ==
    /\ pc[t] = "closing"
    /\ connections' = MapRemove(connections, addrOf[t])
    /\ chan' = [chan EXCEPT ![t] = NoChannel]
    /\ pc' = [pc EXCEPT ![t] = "closed"]
    /\ lastSub' = [lastSub EXCEPT ![t] = NoSub]
    /\ addrOf' = [addrOf EXCEPT ![t] = 0]
    /\ UNCHANGED <<others, send, pending, lagged, run, inv, table, frame, seen, kvvars, libvars>>


(***************************************************************************)
(* Resource tables.  A resource is an EventProxy, a SocketProxy or a       *)
(* ServerProxy; `by` records the invocation whose call inserted it and     *)
(* `guest` whether the guest still owns the handle it was given.           *)
(***************************************************************************)
\* the table of the StoreCtx that State::store() returns
EmptyTable == << >>

EventRes(data, i) == [kind |-> "event", data |-> data, by |-> i, guest |-> TRUE]

SocketRes(i) == [kind |-> "socket", data |-> "", by |-> i, guest |-> TRUE]

ServerRes(i) == [kind |-> "server", data |-> "", by |-> i, guest |-> TRUE]

\* ResourceTable::delete: the entry is taken out of the table
TableDelete(tbl, h) == [x \in DOMAIN tbl \ {h} |-> tbl[x]]

\* HostSocketWithStore::drop: table.delete(rep)
drop_socket(tbl, rep) == TableDelete(tbl, rep)

\* HostEventWithStore::drop: table.delete(rep)
drop_event(tbl, rep) == TableDelete(tbl, rep)

\* HostServerWithStore::drop: Ok(()), the table is not touched
drop_server(tbl, rep) == tbl

\* ResourceTable::push: the resource goes to the first free index
TablePush(tbl, res) ==
    LET h == CHOOSE n \in 0..Cardinality(DOMAIN tbl) :
                 /\ n \notin DOMAIN tbl
                 /\ \A m \in 0..(n - 1) : m \in DOMAIN tbl
    IN  [x \in DOMAIN tbl \cup {h} |-> IF x = h THEN res ELSE tbl[x]]

HandleStore_shared(i) == 1

\* Handler::handle builds its store from a StoreCtx of its own: the store,
\* and so the table, that invocation i works on
HandleStore(i) == i

\* the table that the host functions called by invocation i see
TableOf(i) == table[HandleStore(i)]

(***************************************************************************)
(* server::run and Handler::handle.                                        *)
(***************************************************************************)
\* stream.next() yields an event: tokio::spawn of its handler task
Dispatch(i) ==
    /\ run = "looping"
    /\ ~lagged
    /\ pending # <<>>
    /\ inv[i].pc = "free"
    /\ \A j \in Invs : j < i => inv[j].pc # "free"
    /\ inv' = [inv EXCEPT ![i] = [pc |-> "spawned", kind |-> "ws",
                                   event |-> Some(Head(pending)),
                                   after |-> {j \in Invs : inv[j].pc = "failed"}]]
    /\ pending' = Tail(pending)
    /\ UNCHANGED <<connections, others, pc, addrOf, chan, send, lagged, run, table, hist, kvvars, libvars>>

RecvLagged_ends ==
    /\ run = "looping"
    /\ lagged
    /\ lagged' = FALSE
    /\ run' = "returned"
    /\ UNCHANGED <<connections, others, pc, addrOf, chan, send, pending, inv, table, hist, kvvars, libvars>>

\* stream.next() finds that the subscription lagged: filter_map logs the
\* error and gives None, and the stream goes on with the oldest event kept
RecvLagged ==
    /\ run = "looping"
    /\ lagged
    /\ lagged' = FALSE
    /\ run' = run
    /\ UNCHANGED <<connections, others, pc, addrOf, chan, send, pending, inv, table, hist, kvvars, libvars>>

\* store_data = self.state.store(); table.push(event)
HandlePush(i) ==
    /\ inv[i].pc = "spawned"
    /\ table' = [table EXCEPT ![HandleStore(i)] = TablePush(@, EventRes(inv[i].event[1].data, i))]
    /\ inv' = [inv EXCEPT ![i].pc = "pushed"]
    /\ UNCHANGED <<connections, others, pc, addrOf, chan, send, pending, lagged, run, hist, kvvars, libvars>>

\* Store::new, instantiate_async and Websocket::new succeed; call_handle starts
Instantiate(i) ==
    /\ inv[i].pc = "pushed"
    /\ inv' = [inv EXCEPT ![i].pc = "running"]
    /\ UNCHANGED <<connections, others, pc, addrOf, chan, send, pending, lagged, run, table, hist, kvvars, libvars>>

AfterHandlerError_returns == "returned"

\* what run does with an Err of handler.handle: it is logged in the spawned
\* task, and the loop goes on
AfterHandlerError == run

\* the invocation ends with an error; its store is dropped
HandlerFails(i) ==
    /\ inv' = [inv EXCEPT ![i].pc = "failed"]
    /\ table' = [table EXCEPT ![HandleStore(i)] = EmptyTable]
    /\ run' = AfterHandlerError
    /\ UNCHANGED <<connections, others, pc, addrOf, chan, send, pending, lagged, hist, kvvars, libvars>>

\* table.push(event) returns an error: "failed to push event"
PushFail(i) ==
    /\ inv[i].pc = "spawned"
    /\ HandlerFails(i)

\* instantiate_async or Websocket::new fails
InstantiateFail(i) ==
    /\ inv[i].pc = "pushed"
    /\ HandlerFails(i)

\* the guest handler returns an error or traps
GuestFail(i) ==
    /\ inv[i].pc = "running"
    /\ inv[i].kind = "ws"
    /\ send[i].pc = "idle"
    /\ HandlerFails(i)

\* the guest handler returns Ok; the store is dropped
GuestReturn(i) ==
    /\ inv[i].pc = "running"
    /\ send[i].pc = "idle"
    /\ inv' = [inv EXCEPT ![i].pc = "done"]
    /\ table' = [table EXCEPT ![HandleStore(i)] = EmptyTable]
    /\ UNCHANGED <<connections, others, pc, addrOf, chan, send, pending, lagged, run, hist, kvvars, libvars>>

\* an HTTP request starts a guest invocation of its own (send_message of
\* the example guest); its store holds no event
HttpInvoke(i) ==
    /\ inv[i].pc = "free"
    /\ \A j \in Invs : j < i => inv[j].pc # "free"
    /\ inv' = [inv EXCEPT ![i] = [pc |-> "running", kind |-> "http", event |-> None,
                                   after |-> {}]]
    /\ UNCHANGED <<connections, others, pc, addrOf, chan, send, pending, lagged, run, table, hist, kvvars, libvars>>

(***************************************************************************)
(* Host functions the guest calls while its handler runs.                  *)
(***************************************************************************)
GuestReady(i) ==
    /\ inv[i].pc = "running"
    /\ send[i].pc = "idle"

\* Socket::connect: ctx.connect(), table.push(SocketProxy)
GuestConnect(i) ==
    /\ GuestReady(i)
    /\ Cardinality(DOMAIN TableOf(i)) < MaxTable
    /\ table' = [table EXCEPT ![HandleStore(i)] = TablePush(@, SocketRes(i))]
    /\ UNCHANGED <<connections, others, pc, addrOf, chan, send, pending, lagged, run, inv, hist, kvvars, libvars>>

\* Event::new(data): ctx.new_event(data), table.push(EventProxy)
GuestNewEvent(i, data) ==
    /\ GuestReady(i)
    /\ Cardinality(DOMAIN TableOf(i)) < MaxTable
    /\ table' = [table EXCEPT ![HandleStore(i)] = TablePush(@, EventRes(data, i))]
    /\ UNCHANGED <<connections, others, pc, addrOf, chan, send, pending, lagged, run, inv, hist, kvvars, libvars>>

\* store::get_server: ctx.serve(), table.push(ServerProxy)
GuestGetServer(i) ==
    /\ GuestReady(i)
    /\ Cardinality(DOMAIN TableOf(i)) < MaxTable
    /\ table' = [table EXCEPT ![HandleStore(i)] = TablePush(@, ServerRes(i))]
    /\ UNCHANGED <<connections, others, pc, addrOf, chan, send, pending, lagged, run, inv, hist, kvvars, libvars>>

\* the guest drops the handle h it owns: the handle is gone on the guest's
\* side and the drop function of the resource's kind runs on the host
GuestDrop(i, h) ==
    /\ GuestReady(i)
    /\ h \in DOMAIN TableOf(i) /\ TableOf(i)[h].guest
    /\ LET tbl == [TableOf(i) EXCEPT ![h].guest = FALSE]
       IN  table' = [table EXCEPT ![HandleStore(i)] =
                        CASE tbl[h].kind = "socket" -> drop_socket(tbl, h)
                          [] tbl[h].kind = "event" -> drop_event(tbl, h)
                          [] tbl[h].kind = "server" -> drop_server(tbl, h)]
    /\ UNCHANGED <<connections, others, pc, addrOf, chan, send, pending, lagged, run, inv, hist, kvvars, libvars>>

(***************************************************************************)
(* WebSocketDefault::send(event, groups), called through client::send      *)
(* with a socket handle s and an event handle e of the caller's table.     *)
(***************************************************************************)
\* the map is locked, the senders of the targets are cloned, the lock is
\* released.  Targets among the peers that are not followed one by one have
\* channels of their own, which are not part of the state.
SendEnumerate(i, s, e, groups) ==
    /\ GuestReady(i)
    /\ s \in DOMAIN TableOf(i) /\ TableOf(i)[s].kind = "socket"
    /\ e \in DOMAIN TableOf(i) /\ TableOf(i)[e].kind = "event"
    /\ send' = [send EXCEPT ![i] = [pc |-> "enqueue", data |-> TableOf(i)[e].data,
                                    groups |-> groups,
                                    clients |-> Clients(connections, groups),
                                    failures |-> 0, result |-> ""]]
    /\ UNCHANGED <<connections, others, pc, addrOf, chan, pending, lagged, run, inv, table, hist, kvvars, libvars>>

\* one turn of `for mut client in clients`: client.try_send(msg.clone()).
\* The model follows at most `cap` queued messages per channel.
SendEnqueue(i, t, cap) ==
    /\ send[i].pc = "enqueue"
    /\ t \in send[i].clients
    /\ LET r == TrySend(CloneSender(t), chan[t])
       IN  IF r = "Ok"
           THEN /\ Len(chan[t].queue) < cap
                /\ chan' = [chan EXCEPT ![t].queue = Append(@, Binary(send[i].data))]
                /\ send' = [send EXCEPT ![i].clients = @ \ {t}]
           ELSE /\ chan' = chan
                /\ send' = [send EXCEPT ![i].clients = @ \ {t}, ![i].failures = @ + 1]
    /\ UNCHANGED <<connections, others, pc, addrOf, pending, lagged, run, inv, table, hist, kvvars, libvars>>

SendResult_silent(failures) == "Ok"

\* after the loop: Err when failures > 0, else Ok(())
SendResult(failures) == IF failures > 0 THEN "Err" ELSE "Ok"

SendReturn_echo(i) ==
    /\ send[i].pc = "enqueue"
    /\ send[i].clients = {}
    /\ send' = [send EXCEPT ![i].pc = "returned", ![i].result = SendResult(send[i].failures)]
    /\ Publish([InMemEvent(send[i].data) EXCEPT
                   !.from = Some([task |-> 0, n |-> 0, seq |-> seen.published])])
    /\ UNCHANGED <<connections, others, pc, addrOf, chan, run, inv, table, hist, kvvars, libvars>>

SendReturn(i) ==
    /\ send[i].pc = "enqueue"
    /\ send[i].clients = {}
    /\ send' = [send EXCEPT ![i].pc = "returned", ![i].result = SendResult(send[i].failures)]
    /\ UNCHANGED <<connections, others, pc, addrOf, chan, pending, lagged, run, inv, table, hist, kvvars, libvars>>

\* the guest has the result of client::send and goes on
SendDone(i) ==
    /\ send[i].pc = "returned"
    /\ send' = [send EXCEPT ![i] = IdleSend]
    /\ UNCHANGED <<connections, others, pc, addrOf, chan, pending, lagged, run, inv, table, hist, kvvars, libvars>>

(***************************************************************************)
(* Steps of the connection tasks T with peer addresses A: the life of the  *)
(* connection, and its outbound half.                                      *)
(***************************************************************************)
LinkStep(T, A) ==
    \E t \in T :
        \/ \E a \in A : Accept(t, a)
        \/ HandshakeOk(t)
        \/ HandshakeFail(t)
        \/ SaveSocket(t)
        \/ CloseFrame(t)
        \/ PeerDisconnect(t)
        \/ Cleanup(t)

OutStep(T) ==
    \E t \in T :
        \/ Forward(t)
        \/ ForwardFail(t)
        \/ ForwardEnds(t)

ConnStep(T, A) == LinkStep(T, A) \/ OutStep(T)

\* text frames of the peers
TextStep(T, texts, cap, obs) ==
    \E t \in T, text \in texts : TextFrame(t, text, cap, obs)

\* binary frames of the peers
BinaryStep(T, cap, obs) ==
    \E t \in T, data \in BinaryFrames : BinaryFrame(t, data, cap, obs)

\* the dispatcher and the start and failure of its handler invocations
RunStep(I) ==
    \/ Subscribe
    \/ \E i \in I :
        \/ Dispatch(i)
        \/ HandlePush(i)
        \/ PushFail(i)
        \/ Instantiate(i)
        \/ InstantiateFail(i)
        \/ GuestFail(i)

Handles == 0..(MaxTable - 1)

\* what the guests I do while they run; their sends ask for one of `groups`
GuestStep(I, groups, cap) ==
    \E i \in I :
        \/ GuestConnect(i)
        \/ \E data \in GuestData : GuestNewEvent(i, data)
        \/ \E s \in Handles, e \in Handles, g \in groups : SendEnumerate(i, s, e, g)
        \/ \E t \in Tasks : SendEnqueue(i, t, cap)
        \/ SendReturn(i)
        \/ SendDone(i)
        \/ GuestReturn(i)

SendGroups == {None, Some({}), Some({"lobby"}), Some({"lobby", "chat"})}

(***************************************************************************)
(* Spec: the fan-out server.  Peers connect, subscribe and leave while one *)
(* guest invocation, started by an HTTP request, sends.                    *)
(***************************************************************************)
Next ==
    \/ ConnStep(Tasks, Addrs)
    \/ TextStep(Tasks, SubscribeTexts, MaxPending, {})
    \/ HttpInvoke(1)
    \/ GuestStep({1}, SendGroups, MaxQueue)

Init == WsInit(0) /\ KvInit({1}) /\ LibInit

Spec == Init /\ [][Next]_vars

(***************************************************************************)
(* SpecSub: connections that come one after the other from one address,    *)
(* with the history of their subscribe frames, and group-filtered sends.   *)
(***************************************************************************)
NextSub ==
    \/ ConnStep(Tasks, {1})
    \/ TextStep(Tasks, SubscribeTexts, MaxPending, {"lastSub"})
    \/ HttpInvoke(1)
    \/ GuestStep({1}, {Some({"lobby"}), Some({"lobby", "chat"})}, MaxQueue)

SpecSub == Init /\ [][NextSub]_vars

(***************************************************************************)
(* SpecCap: a server that already serves MAX_CONNECTIONS - OthersWindow    *)
(* other peers, which come and go, while followed peers connect and leave. *)
(* No guest sends, so nothing is queued for a peer.                        *)
(***************************************************************************)
InitCap == WsInit(MAX_CONNECTIONS - OthersWindow) /\ KvInit({1}) /\ LibInit

NextCap ==
    \/ LinkStep(Tasks, Addrs)
    \/ \E t \in Tasks : ForwardEnds(t)
    \/ OtherSaveSocket
    \/ OtherCleanup

SpecCap == InitCap /\ [][NextCap]_vars

(***************************************************************************)
(* SpecBackpressure: two peers are open; the first one stopped reading     *)
(* when CHANNEL_BUFFER messages were queued for it, the second one reads.  *)
(* A guest invocation keeps sending to everyone.                           *)
(***************************************************************************)
\* n copies of msg
Repeat(msg, n) == [k \in 1..n |-> msg]

InitBackpressure ==
    /\ connections = [a \in {1, 2} |-> NewConnection(a)]
    /\ others = 0
    /\ pc = [t \in Tasks |-> IF t \in {1, 2} THEN "open" ELSE "listening"]
    /\ addrOf = [t \in Tasks |-> IF t \in {1, 2} THEN t ELSE 0]
    /\ chan = [t \in Tasks |->
                 IF t = 1 THEN [queue |-> Repeat(Binary("hi"), CHANNEL_BUFFER), open |-> TRUE]
                 ELSE IF t = 2 THEN NewChannel
                 ELSE NoChannel]
    /\ send = [i \in Invs |-> IdleSend]
    /\ pending = <<>>
    /\ lagged = FALSE
    /\ run = "looping"
    /\ inv = [i \in Invs |-> FreeInv]
    /\ table = [i \in Invs |-> << >>]
    /\ lastSub = [t \in Tasks |-> NoSub]
    /\ frame = NoFrame
    /\ seen = NoneSeen
    /\ KvInit({1}) /\ LibInit

NextBackpressure ==
    \/ Forward(2)
    \/ HttpInvoke(1)
    \/ GuestStep({1}, {None}, CHANNEL_BUFFER + MaxBacklog)

SpecBackpressure == InitBackpressure /\ [][NextBackpressure]_vars

(***************************************************************************)
(* SpecDispatch: one peer sends payload frames; the dispatcher spawns a    *)
(* handler invocation per event, HTTP requests start invocations too, and  *)
(* the invocations run concurrently, create resources, send, fail or       *)
(* return.                                                                 *)
(***************************************************************************)
NextDispatch ==
    \/ LinkStep({1}, {1})
    \/ Forward(1)
    \/ ForwardFail(1)
    \/ TextStep({1}, {"hello", "msg[lobby]"}, MaxPending, {})
    \/ RunStep(Invs)
    \/ \E i \in Invs : HttpInvoke(i)
    \/ GuestStep(Invs, {None}, MaxQueue)

SpecDispatch == Init /\ [][NextDispatch]_vars

(***************************************************************************)
(* The cache set of the guest, set(key, value, ttl_secs), which returns    *)
(* the previous value.  Bucket::set takes no ttl and returns nothing, so   *)
(* the previous value is read with Bucket::get before the Bucket::set; the *)
(* ttl is carried along and not passed on.                                 *)
(***************************************************************************)
TtlSecs == {None, Some(0), Some(60)}

\* the guest calls set(key, value, ttl_secs) on a bucket it has opened: the
\* previous value is asked for first
CacheSet(c, name, key, value, ttl) ==
    /\ call[c].pc = "idle"
    /\ name \in call[c].open
    /\ call' = [call EXCEPT ![c] = [@ EXCEPT !.pc = "called", !.op = "get", !.bucket = name,
                                             !.key = key, !.value = value,
                                             !.wrap = "reading", !.ttl = ttl]]
    /\ UNCHANGED <<wsvars, hist, libvars, store, shardOf, last>>

\* the get has returned: its result is kept and the value is written
CacheSetWrite(c) ==
    /\ call[c].pc = "done"
    /\ call[c].wrap = "reading"
    /\ call' = [call EXCEPT ![c] = [@ EXCEPT !.pc = "called", !.op = "set",
                                             !.wrap = "writing", !.ret = call[c].result,
                                             !.result = None, !.prev = None]]
    /\ UNCHANGED <<wsvars, hist, libvars, store, shardOf, last>>

\* the set has returned: the guest has Ok(ret)
CacheSetReturn(c) ==
    /\ call[c].pc = "done"
    /\ call[c].wrap = "writing"
    /\ call' = [call EXCEPT ![c] = IdleCall(@.open)]
    /\ UNCHANGED <<wsvars, hist, libvars, store, shardOf, last>>

\* the cache sets of the callers C on the buckets B with the keys K
CacheStep(C, B, K) ==
    \E c \in C :
        \/ \E b \in B, k \in K, v \in Values, ttl \in TtlSecs : CacheSet(c, b, k, v, ttl)
        \/ CacheSetWrite(c)
        \/ CacheSetReturn(c)

(***************************************************************************)
(* SpecKV: one guest works on two buckets of the key-value store.          *)
(***************************************************************************)
InitKV == WsInit(0) /\ KvInit(Shards) /\ LibInit

NextKV == KvStep({1}, Buckets, Keys)

SpecKV == InitKV /\ [][NextKV]_vars

(***************************************************************************)
(* SpecKVConc: two guests work on one bucket at the same time.             *)
(***************************************************************************)
NextKVConc == KvStep(Callers, {"a"}, Keys)

SpecKVConc == InitKV /\ [][NextKVConc]_vars

(***************************************************************************)
(* SpecCache: one guest works on one bucket with the Bucket methods and    *)
(* with cache sets.                                                        *)
(***************************************************************************)
NextCache ==
    \/ KvStep({1}, {"a"}, Keys)
    \/ CacheStep({1}, {"a"}, Keys)

SpecCache == InitKV /\ [][NextCache]_vars

(***************************************************************************)
(* SpecOpen: two guests open the same bucket names, each for a handle of   *)
(* its own; the first one writes through its handles, the second one reads *)
(* through its handles.                                                    *)
(***************************************************************************)
NextOpen ==
    \/ \E c \in {1, 2}, b \in Buckets : KvOpen(c, b)
    \/ \E b \in Buckets, k \in {"k1"}, v \in Values : KvSet(1, b, k, v)
    \/ \E b \in Buckets, k \in {"k1"} : KvDelete(1, b, k)
    \/ \E b \in Buckets, k \in {"k1"} : KvGet(2, b, k)
    \/ \E b \in Buckets, k \in {"k1"} : KvExists(2, b, k)
    \/ \E b \in Buckets : KvKeys(2, b)
    \/ \E c \in {1, 2} : KvLock(c) \/ KvApply(c) \/ KvReturn(c)

SpecOpen == InitKV /\ [][NextOpen]_vars

(***************************************************************************)
(* SpecOrder: two peers are connected and send frames at the same time;    *)
(* the dispatcher subscribes and receives.  Every event carries the        *)
(* history of its frame.                                                   *)
(***************************************************************************)
MaxFrames == 3

InitOrder ==
    /\ connections = [a \in {1, 2} |-> NewConnection(a)]
    /\ others = 0
    /\ pc = [t \in Tasks |-> IF t \in {1, 2} THEN "open" ELSE "listening"]
    /\ addrOf = [t \in Tasks |-> IF t \in {1, 2} THEN t ELSE 0]
    /\ chan = [t \in Tasks |-> IF t \in {1, 2} THEN NewChannel ELSE NoChannel]
    /\ send = [i \in Invs |-> IdleSend]
    /\ pending = <<>>
    /\ lagged = FALSE
    /\ run = "subscribing"
    /\ inv = [i \in Invs |-> FreeInv]
    /\ table = [i \in Invs |-> << >>]
    /\ lastSub = [t \in Tasks |-> NoSub]
    /\ frame = NoFrame
    /\ seen = NoneSeen
    /\ KvInit({1}) /\ LibInit

NextOrder ==
    \/ \E t \in {1, 2} :
          /\ seen.frames[t] < MaxFrames
          /\ \/ TextStep({t}, {"hello", "sub[lobby]"}, BUS_CAPACITY, {"order"})
             \/ BinaryStep({t}, BUS_CAPACITY, {"order"})
    \/ Subscribe
    \/ \E i \in Invs : Dispatch(i)

SpecOrder == InitOrder /\ [][NextOrder]_vars

(***************************************************************************)
(* SpecLag: the dispatcher is subscribed and has not received the          *)
(* BUS_CAPACITY - 1 events that peer 1 has published; the peer goes on     *)
(* publishing and the dispatcher receives.                                 *)
(***************************************************************************)
MaxLagFrames == 4

InitLag ==
    /\ connections = [a \in {1} |-> NewConnection(a)]
    /\ others = 0
    /\ pc = [t \in Tasks |-> IF t = 1 THEN "open" ELSE "listening"]
    /\ addrOf = [t \in Tasks |-> IF t = 1 THEN 1 ELSE 0]
    /\ chan = [t \in Tasks |-> IF t = 1 THEN NewChannel ELSE NoChannel]
    /\ send = [i \in Invs |-> IdleSend]
    /\ pending = [k \in 1..(BUS_CAPACITY - 1) |->
                     [InMemEvent("bin") EXCEPT !.from = Some([task |-> 1, n |-> k, seq |-> k])]]
    /\ lagged = FALSE
    /\ run = "looping"
    /\ inv = [i \in Invs |-> FreeInv]
    /\ table = [i \in Invs |-> << >>]
    /\ lastSub = [t \in Tasks |-> NoSub]
    /\ frame = NoFrame
    /\ seen = [frames |-> [t \in Tasks |-> IF t = 1 THEN BUS_CAPACITY - 1 ELSE 0],
               published |-> BUS_CAPACITY - 1]
    /\ KvInit({1}) /\ LibInit

\* the peer may publish: the bound of the model apart, nothing holds a
\* frame back
MayPublish == seen.frames[1] < BUS_CAPACITY - 1 + MaxLagFrames

NextLag ==
    \/ MayPublish /\ BinaryStep({1}, BUS_CAPACITY + 1, {"order"})
    \/ \E i \in Invs : Dispatch(i)
    \/ RecvLagged

SpecLag == InitLag /\ [][NextLag]_vars

(***************************************************************************)
(* SpecLive: the life of the connections under fair scheduling.  Nothing   *)
(* awaits between the end of future::select and connections.remove, and    *)
(* the mutex is held for short sections only, so a task whose select has   *)
(* completed goes on to its cleanup: weak fairness of Cleanup.  What the   *)
(* peers and the guest do is not constrained.                              *)
(***************************************************************************)
NextLive ==
    \/ ConnStep(Tasks, Addrs)
    \/ HttpInvoke(1)
    \/ GuestStep({1}, {None}, MaxQueue)

SpecLive == Init /\ [][NextLive]_vars /\ \A t \in Tasks : WF_vars(Cleanup(t))

(***************************************************************************)
(* SpecGroups: peers at two addresses subscribe while a guest invocation   *)
(* makes group-filtered sends; the latest frame and the latest subscribe   *)
(* frame of every peer are kept as history.                                *)
(***************************************************************************)
NextGroups ==
    \/ ConnStep(Tasks, Addrs)
    \/ TextStep(Tasks, {"sub[lobby]", "sub[chat]", "sub[lobby,chat]"}, MaxPending,
                {"frame", "lastSub"})
    \/ HttpInvoke(1)
    \/ GuestStep({1}, {Some({"lobby"})}, MaxQueue)

SpecGroups == Init /\ [][NextGroups]_vars

(***************************************************************************)
(* SpecTable: guest invocations that take resources of the three kinds and *)
(* drop handles again before they return.                                  *)
(***************************************************************************)
NextTable ==
    \E i \in Invs :
        \/ HttpInvoke(i)
        \/ GuestConnect(i)
        \/ \E data \in GuestData : GuestNewEvent(i, data)
        \/ GuestGetServer(i)
        \/ \E h \in Handles : GuestDrop(i, h)
        \/ GuestReturn(i)

SpecTable == Init /\ [][NextTable]_vars

(***************************************************************************)
(* SpecEcho: two open peers send frames, the dispatcher spawns a handler   *)
(* invocation for every event, and the invocations send to all peers,      *)
(* which read what is queued for them.                                     *)
(***************************************************************************)
\* frames that a peer sends at most
MaxEchoFrames == 1

NextEcho ==
    \/ \E t \in {1, 2} :
          /\ seen.frames[t] < MaxEchoFrames
          /\ \/ TextStep({t}, {"hello", "sub[lobby]"}, MaxPending, {"order"})
             \/ BinaryStep({t}, MaxPending, {"order"})
    \/ \E t \in {1, 2} : Forward(t)
    \/ RunStep(Invs)
    \/ GuestStep(Invs, {None}, MaxQueue)

SpecEcho == InitOrder /\ [][NextEcho]_vars

(***************************************************************************)
(* SpecFrames: one peer sends every kind of text and binary frame, with    *)
(* the history of the latest frame, while the dispatcher subscribes and    *)
(* takes events off the bus.  No guest sends, so nothing is queued for the *)
(* peer.                                                                   *)
(***************************************************************************)
NextFrames ==
    \/ LinkStep({1}, {1})
    \/ TextStep({1}, TextFrames, MaxPending, {"frame"})
    \/ BinaryStep({1}, MaxPending, {"frame"})
    \/ RunStep({1})

SpecFrames == Init /\ [][NextFrames]_vars


(***************************************************************************)
(* Properties.                                                             *)
(***************************************************************************)
C1_SaveSocketAtCap ==
    \A t \in Tasks :
        (pc[t] = "handshaken" /\ pc'[t] # "handshaken" /\ ConnLen >= MAX_CONNECTIONS)
            => (pc'[t] = "rejected" /\ connections' = connections /\ others' = others)

\* C1: the ConnectionMap never holds more than MAX_CONNECTIONS entries, and
\* a save_socket that finds MAX_CONNECTIONS entries in it fails and leaves
\* the map as it is.
C1_MapCapped == [](ConnLen <= MAX_CONNECTIONS) /\ [][C1_SaveSocketAtCap]_vars

\* a peer was turned away by a map that holds MAX_CONNECTIONS entries
C1_Witness == \E t \in Tasks : pc[t] = "rejected" /\ ConnLen = MAX_CONNECTIONS

\* the channels a send for `groups` has to reach: those of all peers in the
\* map, or of the peers that are in one of the groups
ExpectedTargets(conns, groups) ==
    {t \in Tasks : \E a \in DOMAIN conns :
        /\ conns[a].sender = t
        /\ (groups = None \/ \E g \in conns[a].groups : g \in groups[1])}

C2_Enumerate ==
    \A i \in Invs :
        (send[i].pc = "idle" /\ send'[i].pc = "enqueue")
            => send'[i].clients = ExpectedTargets(connections, send'[i].groups)

C2_Enqueue ==
    \A t \in Tasks :
        /\ Len(chan'[t].queue) > Len(chan[t].queue)
            => \E i \in Invs :
                /\ t \in send[i].clients
                /\ chan'[t].queue = Append(chan[t].queue, Binary(send[i].data))
        /\ \A i \in Invs :
            (t \in send[i].clients /\ t \notin send'[i].clients /\ chan[t].open)
                => chan'[t].queue = Append(chan[t].queue, Binary(send[i].data))

\* C2: a send without groups targets every peer that is in the map when the
\* targets are enumerated, a send with groups exactly the peers whose group
\* set shares a group with the request; the message is enqueued for the
\* targets and for no other peer.
C2_SendTargets == [][C2_Enumerate /\ C2_Enqueue]_vars

\* peer a is in "lobby" and peer b in "chat"; a send to "lobby" has returned,
\* its message is queued for a and nothing is queued for b
C2_Witness ==
    \E a \in DOMAIN connections, b \in DOMAIN connections :
        /\ connections[a].groups = {"lobby"}
        /\ connections[b].groups = {"chat"}
        /\ send[1].pc = "returned"
        /\ send[1].groups = Some({"lobby"})
        /\ chan[connections[a].sender].queue = <<Binary("hi")>>
        /\ chan[connections[b].sender].queue = <<>>

C3_Latest ==
    \A a \in DOMAIN connections :
        connections[a].groups = ExpectedGroups(lastSub[connections[a].sender].text)

C3_Targets ==
    \A i \in Invs :
        (send[i].pc = "idle" /\ send'[i].pc = "enqueue" /\ send'[i].groups # None)
            => \A t \in send'[i].clients :
                ExpectedGroups(lastSub[t].text) \cap send'[i].groups[1] # {}

\* C3: the group set of a peer in the map is the set of group strings of its
\* latest subscribe frame (none before the first), and a group-filtered send
\* targets a peer only for a group of that latest frame.
C3_SubscribeReplaces == []C3_Latest /\ [][C3_Targets]_vars

\* a peer named "lobby" in an earlier subscribe frame and only "chat" in its
\* latest one; a send to "lobby" has returned without enqueueing for it
C3_Witness ==
    \E a \in DOMAIN connections :
        /\ lastSub[connections[a].sender].ever = {"lobby", "chat"}
        /\ lastSub[connections[a].sender].text = "sub[chat]"
        /\ connections[a].groups = {"chat"}
        /\ send[1].pc = "returned"
        /\ send[1].groups = Some({"lobby"})
        /\ chan[connections[a].sender].queue = <<>>


\* the frame that the step handles is a subscribe control frame: a text frame
\* {"type":"subscribe","groups":[...]}
C4_IsControl == frame'.kind = "text" /\ frame'.payload \in SubscribeTexts

C4_Frame ==
    frame' # frame =>
        IF C4_IsControl
        THEN pending' = pending
        ELSE /\ connections' = connections
             /\ (run = "looping" /\ Len(pending) < BUS_CAPACITY)
                    => pending' = Append(pending, InMemEvent(frame'.payload))

\* C4: a binary frame, and a text frame that is not a subscribe control
\* frame, puts exactly one event on the bus, with the payload of the frame as
\* its data and no group, and leaves the group sets as they are; a subscribe
\* control frame puts no event on the bus.
C4_FramesPublish == [][C4_Frame]_vars

\* a peer in "chat" sent the text {"type":"subscribe"} without groups and then
\* a binary frame with the bytes of a subscribe frame: both wait on the bus
C4_Witness ==
    /\ \E a \in DOMAIN connections : connections[a].groups = {"chat"}
    /\ frame.kind = "binary"
    /\ pending = <<InMemEvent("sub-without-groups"), InMemEvent("sub[lobby]")>>

\* the Senders of the channel of task t that are alive: the one in the map
\* and the clones that sends in flight still hold
NumSenders(t) ==
    Cardinality({a \in DOMAIN connections : connections[a].sender = t})
        + Cardinality({i \in Invs : t \in send[i].clients})

\* the channel of task t holds all it has room for: the buffer of
\* CHANNEL_BUFFER messages and one more for every Sender
ChannelFull(t) == Len(chan[t].queue) >= CHANNEL_BUFFER + NumSenders(t)

C5_TryOnFull ==
    \A i \in Invs, t \in Tasks :
        (t \in send[i].clients /\ t \notin send'[i].clients /\ ChannelFull(t))
            => /\ chan'[t].queue = chan[t].queue
               /\ connections' = connections
               /\ send'[i].clients = send[i].clients \ {t}

\* C5: a send that finds the channel of a target full drops the message for
\* that peer: nothing is added to the queue, the peer keeps its entry and its
\* groups, and the send goes on with its remaining targets.
C5_FullChannelDrops == [][C5_TryOnFull]_vars

\* C6: a resource in the table that an invocation works on was inserted
\* during that invocation: no handle of one invocation resolves in the table
\* of another, also while invocations run concurrently.
C6_TablesIsolated ==
    \A i \in Invs : \A h \in DOMAIN TableOf(i) : TableOf(i)[h].by = i

\* two invocations run at the same time; each has an event and a socket in
\* its table, under the same handles
C6_Witness ==
    /\ inv[1].pc = "running" /\ inv[2].pc = "running"
    /\ DOMAIN table[1] = {0, 1} /\ DOMAIN table[2] = {0, 1}
    /\ table[1][0].kind = "event" /\ table[2][0].kind = "event"
    /\ table[1][1].kind = "socket" /\ table[2][1].kind = "socket"

C7_FailureStep ==
    \A i \in Invs :
        (inv[i].pc # "failed" /\ inv'[i].pc = "failed")
            => /\ run' = run
               /\ pending' = pending
               /\ lagged' = lagged
               /\ \A j \in Invs \ {i} :
                    inv'[j] = inv[j] /\ table'[j] = table[j] /\ send'[j] = send[j]

\* once subscribed the dispatcher loops, and it takes the next event
\* whenever one waits
C7_Dispatching ==
    /\ run \in {"subscribing", "looping"}
    /\ (run = "looping" /\ ~lagged /\ pending # <<>> /\ \E i \in Invs : inv[i].pc = "free")
            => ENABLED (\E i \in Invs : Dispatch(i))

\* C7: the failure of one handler invocation leaves the dispatcher, the
\* waiting events and the other invocations as they are, and the dispatcher
\* goes on spawning an invocation for each event it receives.
C7_DispatcherSurvives == []C7_Dispatching /\ [][C7_FailureStep]_vars

\* the first invocation failed; the dispatcher spawned the second one after
\* that, and its guest runs
C7_Witness ==
    /\ inv[1].pc = "failed"
    /\ inv[2].pc = "running" /\ inv[2].kind = "ws"
    /\ 1 \in inv[2].after

\* caller c's call takes effect in this step
Applies(c) == call[c].pc = "locked" /\ call'[c].pc = "done"

C8_Apply ==
    \A c \in Callers :
        Applies(c) =>
            LET q == call[c]
                r == call'[c].result
            IN  /\ q.op = "get" => r = last[q.bucket][q.key]
                /\ q.op = "exists" => r = Some(last[q.bucket][q.key] # None)
                /\ q.op = "keys" => r = Some({k \in Keys : last[q.bucket][k] # None})
                /\ q.op \in {"set", "delete"} => r = Some("ok")
                /\ (q.op = "delete" /\ last[q.bucket][q.key] = None) => store' = store

\* C8: on one bucket get returns the value of the latest set of the key that
\* no delete followed, and none otherwise; exists is true exactly when get
\* is not none; keys is exactly the set of keys that exist; set and delete
\* never fail, and the delete of a missing key changes nothing.
C8_PlainMap == [][C8_Apply]_vars

\* the delete of a key that is not there has succeeded, in a bucket that
\* holds the other key
C8_Witness ==
    \E c \in Callers :
        /\ call[c].pc = "done" /\ call[c].op = "delete" /\ call[c].prev = None
        /\ call[c].result = Some("ok")
        /\ call[c].bucket \in DOMAIN store
        /\ DOMAIN store[call[c].bucket] = Keys \ {call[c].key}

\* what get, exists and keys return on bucket `name` of the DashMap st
Reads(st, name) ==
    [get |-> [k \in Keys |-> KvResult("get", StoreGet(st, name), k)],
     exists |-> [k \in Keys |-> KvResult("exists", StoreGet(st, name), k)],
     keys |-> KvResult("keys", StoreGet(st, name), "")]

C9_Apply ==
    \A c \in Callers :
        (Applies(c) /\ call[c].op \in {"set", "delete"})
            => \A name \in Buckets \ {call[c].bucket} :
                Reads(store', name) = Reads(store, name)

\* C9: a set or a delete on one bucket changes no result of get, exists or
\* keys on a bucket of another name, also for the same key.
C9_BucketsIndependent == [][C9_Apply]_vars

\* a set of "k1" in bucket "a" has taken effect while bucket "b" holds
\* another value under "k1"
C9_Witness ==
    \E c \in Callers :
        /\ call[c].pc = "done" /\ call[c].op = "set"
        /\ call[c].bucket = "a" /\ call[c].key = "k1" /\ call[c].value = "v2"
        /\ store = ("a" :> ("k1" :> "v2")) @@ ("b" :> ("k1" :> "v1"))

\* a writer holds the lock of its shard alone
C10_Exclusive ==
    \A c \in Callers : \A d \in Callers \ {c} :
        (call[c].pc = "locked" /\ call[d].pc = "locked"
            /\ shardOf[call[c].bucket] = shardOf[call[d].bucket])
                => ~IsWrite(call[c].op)

\* the DashMap holds what the calls that took effect so far make of it
C10_NothingLost ==
    \A name \in Buckets, k \in Keys :
        KvResult("get", StoreGet(store, name), k) = last[name][k]

\* the call reads the bucket as the calls that took effect before it left it
C10_Atomic ==
    \A c \in Callers :
        Applies(c) => call'[c].result =
            KvResult(call[c].op, StoreGet(store, call[c].bucket), call[c].key)

\* C10: calls of different guests on one bucket are linearisable: each takes
\* effect at one point between its start and its return, under the lock of
\* the shard; what it returns is what the bucket holds at that point, and
\* the bucket holds every set and delete that took effect.
C10_Linearisable == [](C10_Exclusive /\ C10_NothingLost) /\ [][C10_Atomic]_vars

\* two sets of different guests on one bucket are in flight together and
\* both have taken effect
C10_Witness ==
    /\ call[1].pc = "done" /\ call[1].op = "set" /\ call[1].key = "k1"
    /\ call[2].pc = "done" /\ call[2].op = "set" /\ call[2].key = "k2"
    /\ call[1].bucket = "a" /\ call[2].bucket = "a"
    /\ DOMAIN store["a"] = {"k1", "k2"}

C12_OpenStep ==
    \A c \in Callers :
        (Applies(c) /\ call[c].op = "open") =>
            LET name == call[c].bucket
            IN  /\ call'[c].result = Some("ok")
                /\ name \in call'[c].open
                /\ IF name \in DOMAIN store
                   THEN store' = store
                   ELSE /\ DOMAIN store' = DOMAIN store \cup {name}
                        /\ store'[name] = << >>
                        /\ \A other \in DOMAIN store : store'[other] = store[other]

\* what a handle reads is what was written last through any handle of the
\* same name
C12_SharedContents ==
    \A c \in Callers :
        (Applies(c) /\ call[c].op \in {"get", "exists", "keys"}) =>
            call'[c].result =
                CASE call[c].op = "get" -> last[call[c].bucket][call[c].key]
                  [] call[c].op = "exists" -> Some(last[call[c].bucket][call[c].key] # None)
                  [] call[c].op = "keys" -> Some({k \in Keys : last[call[c].bucket][k] # None})

\* C12: open is idempotent: it creates an empty bucket for a new name,
\* leaves an existing bucket as it is, and all handles of one name see the
\* same contents.
C12_OpenIdempotent == [][C12_OpenStep /\ C12_SharedContents]_vars

\* the second guest has opened bucket "a" after the first one, which has a
\* handle of it, stored "v1" in it: the bucket holds "v1" as before
C12_Witness ==
    /\ call[2].pc = "done" /\ call[2].op = "open" /\ call[2].bucket = "a"
    /\ "a" \in call[1].open
    /\ "a" \in DOMAIN store /\ store["a"] = ("k1" :> "v1")

(***************************************************************************)
(* The ORM.  A sea_query Value is a record of its variant and its content  *)
(* written as a string; a Filter is a record of its variant (op), the      *)
(* optional table, the column, the values, the second column of a ColEq    *)
(* and the filters below a combinator.                                     *)
(***************************************************************************)
MaxDepth == 3

OrmTables == {"users", "roles"}
Columns == {"id", "name"}

BoolValue(b) == [variant |-> "Bool", v |-> b]
IntValue(n) == [variant |-> "Int", v |-> n]
BigUnsignedValue(n) == [variant |-> "BigUnsigned", v |-> n]
StringValue(str) == [variant |-> "String", v |-> str]

Leaf(op, tbl, col, vals) ==
    [op |-> op, tbl |-> tbl, col |-> col, vals |-> vals, tbl2 |-> "", col2 |-> "", subs |-> << >>]

\* the constructors Filter::eq, gt, lt, in, is_null, is_not_null, like:
\* no table
FilterEq(col, val) == Leaf("Eq", None, col, <<val>>)
FilterGt(col, val) == Leaf("Gt", None, col, <<val>>)
FilterLt(col, val) == Leaf("Lt", None, col, <<val>>)
FilterIn(col, vals) == Leaf("In", None, col, vals)
FilterIsNull(col) == Leaf("IsNull", None, col, << >>)
FilterIsNotNull(col) == Leaf("IsNotNull", None, col, << >>)
FilterLike(col, pattern) == Leaf("Like", None, col, <<StringValue(pattern)>>)

\* Filter::col_eq
FilterColEq(table1, col1, table2, col2) ==
    [op |-> "ColEq", tbl |-> Some(table1), col |-> col1, vals |-> << >>,
     tbl2 |-> table2, col2 |-> col2, subs |-> << >>]

FilterAnd(filters) ==
    [op |-> "And", tbl |-> None, col |-> "", vals |-> << >>, tbl2 |-> "", col2 |-> "", subs |-> filters]
FilterOr(filters) ==
    [op |-> "Or", tbl |-> None, col |-> "", vals |-> << >>, tbl2 |-> "", col2 |-> "", subs |-> filters]
FilterNot(filter) ==
    [op |-> "Not", tbl |-> None, col |-> "", vals |-> << >>, tbl2 |-> "", col2 |-> "", subs |-> <<filter>>]

ComparisonOps == {"Eq", "Gt", "Lt", "In", "IsNull", "IsNotNull", "Like"}

on_every(filter, tbl) == [filter EXCEPT !.tbl = Some(tbl)]

\* Filter::on: the seven comparison leaves get the table, any other filter
\* is returned as it is
on(filter, tbl) ==
    IF filter.op \in ComparisonOps
    THEN [filter EXCEPT !.tbl = Some(tbl)]
    ELSE filter

RECURSIVE Depth(_)
Depth(filter) ==
    IF filter.subs = << >> THEN 1
    ELSE 1 + (CHOOSE d \in 1..MaxDepth :
                 /\ \E i \in DOMAIN filter.subs : Depth(filter.subs[i]) = d
                 /\ \A i \in DOMAIN filter.subs : Depth(filter.subs[i]) <= d)

\* the leaves that the guest starts from and puts next to a filter
LeafInputs ==
    { FilterEq("id", IntValue("7")),
      FilterGt("id", IntValue("100")),
      FilterLt("id", IntValue("100")),
      FilterIsNotNull("name"),
      FilterIn("id", <<IntValue("1"), IntValue("2")>>),
      FilterIsNull("name"),
      FilterLike("name", "%a%"),
      FilterColEq("users", "id", "roles", "id") }

\* the guest makes a leaf or an empty combinator
FilterNew ==
    /\ flt = None
    /\ \E f \in LeafInputs \cup {FilterAnd(<< >>), FilterOr(<< >>)} : flt' = Some(f)
    /\ onCall' = None
    /\ UNCHANGED <<nonorm, builder, given, query, decoded>>

\* filter.on(table)
FilterOn ==
    /\ flt # None
    /\ \E t \in OrmTables :
          /\ flt' = Some(on(flt[1], t))
          /\ onCall' = Some([filter |-> flt[1], table |-> t])
    /\ UNCHANGED <<nonorm, builder, given, query, decoded>>

\* Filter::And(vec![filter, leaf]), Filter::Or(vec![filter, leaf]),
\* Filter::Not(Box::new(filter))
FilterCombine ==
    /\ flt # None
    /\ Depth(flt[1]) < MaxDepth
    /\ \/ \E g \in {FilterEq("id", IntValue("7")), FilterIsNull("name")} :
             flt' = Some(FilterAnd(<<flt[1], g>>))
       \/ \E g \in {FilterEq("id", IntValue("7"))} :
             flt' = Some(FilterOr(<<flt[1], g>>))
       \/ flt' = Some(FilterNot(flt[1]))
    /\ onCall' = None
    /\ UNCHANGED <<nonorm, builder, given, query, decoded>>

\* the guest drops the filter
FilterDrop ==
    /\ flt # None
    /\ flt' = None
    /\ onCall' = None
    /\ UNCHANGED <<nonorm, builder, given, query, decoded>>

(***************************************************************************)
(* Compiling.  A SimpleExpr is what into_expr makes of a Filter: the       *)
(* columns are resolved to "table"."column".  The writer of sea_query      *)
(* collects the SQL, here a sequence of tokens, and the values of the      *)
(* placeholders.                                                           *)
(***************************************************************************)
MaxFilters == 2
MaxJoins == 2
MaxSets == 2

quoted_column(tbl, col) == "\"" \o tbl \o "\".\"" \o col \o "\""

SimpleExpr(op, left, right, vals, subs) ==
    [op |-> op, left |-> left, right |-> right, vals |-> vals, subs |-> subs]

resolve_column(tbl, col, default_table) ==
    quoted_column(IF tbl = None THEN default_table ELSE tbl[1], col)

RECURSIVE into_expr(_, _)
into_expr(filter, default_table) ==
    LET exprs == [i \in DOMAIN filter.subs |-> into_expr(filter.subs[i], default_table)]
    IN  CASE filter.op \in ComparisonOps ->
                 SimpleExpr(filter.op, resolve_column(filter.tbl, filter.col, default_table),
                            "", filter.vals, << >>)
          [] filter.op = "ColEq" ->
                 SimpleExpr("ColEq", quoted_column(filter.tbl[1], filter.col),
                            quoted_column(filter.tbl2, filter.col2), << >>, << >>)
          [] filter.op = "And" ->
                 IF exprs = << >>
                 THEN SimpleExpr("Value", "", "", <<BoolValue("true")>>, << >>)
                 ELSE SimpleExpr("And", "", "", << >>, exprs)
          [] filter.op = "Or" ->
                 IF exprs = << >>
                 THEN SimpleExpr("Value", "", "", <<BoolValue("false")>>, << >>)
                 ELSE SimpleExpr("Or", "", "", << >>, exprs)
          [] filter.op = "Not" -> SimpleExpr("Not", "", "", << >>, exprs)

\* Join::inner, left, right, full
Join(kind, tbl, filter) == [table |-> tbl, on |-> filter, kind |-> kind]

\* Join::into_join_spec: the on filter is resolved with the table that the
\* builder passes
into_join_spec(join, default_table) ==
    [table |-> join.table, on |-> into_expr(join.on, default_table), kind |-> join.kind]

\* the writer: SQL written so far and the values pushed so far
NewWriter == [sql |-> << >>, params |-> << >>]

Write(w, tokens) == [w EXCEPT !.sql = @ \o tokens]

Digit == <<"0", "1", "2", "3", "4", "5", "6", "7", "8", "9">>

\* the number as the writer formats it
RECURSIVE Decimal(_)
Decimal(n) == IF n < 10 THEN Digit[n + 1] ELSE Decimal(n \div 10) \o Digit[(n % 10) + 1]

\* QueryBuilder::placeholder is ("$", true): the sign and the number
Placeholder(n) == "$" \o Decimal(n)

prepare_value_inline(w, value) == [w EXCEPT !.sql = Append(@, value.v)]

\* QueryBuilder::prepare_value: push_param writes the next placeholder and
\* keeps the value
prepare_value(w, value) ==
    [sql |-> Append(w.sql, Placeholder(Len(w.params) + 1)),
     params |-> Append(w.params, value)]

RECURSIVE prepare_values(_, _, _)
prepare_values(w, vals, sep) ==
    IF vals = << >> THEN w
    ELSE LET first == prepare_value(w, Head(vals))
         IN  IF Len(vals) = 1 THEN first
             ELSE prepare_values(Write(first, <<sep>>), Tail(vals), sep)

BinOper(op) ==
    CASE op = "Eq" -> "=" [] op = "Gt" -> ">" [] op = "Lt" -> "<" [] op = "Like" -> "LIKE"
      [] op = "And" -> "AND" [] op = "Or" -> "OR"

\* the expression as sea_query writes it, from left to right
RECURSIVE prepare_simple_expr(_, _)
prepare_simple_expr(w, expr) ==
    LET RECURSIVE Each(_, _)
        Each(ww, i) ==
            IF i > Len(expr.subs) THEN ww
            ELSE Each(prepare_simple_expr(IF i = 1 THEN ww ELSE Write(ww, <<BinOper(expr.op)>>),
                                          expr.subs[i]),
                      i + 1)
    IN  CASE expr.op \in {"Eq", "Gt", "Lt", "Like"} ->
                 prepare_value(Write(w, <<expr.left, BinOper(expr.op)>>), expr.vals[1])
          [] expr.op = "In" ->
                 IF expr.vals = << >>
                 THEN prepare_value(Write(prepare_value(w, IntValue("1")), <<"=">>), IntValue("2"))
                 ELSE Write(prepare_values(Write(w, <<expr.left, "IN", "(">>), expr.vals, ","),
                            <<")">>)
          [] expr.op = "IsNull" -> Write(w, <<expr.left, "IS NULL">>)
          [] expr.op = "IsNotNull" -> Write(w, <<expr.left, "IS NOT NULL">>)
          [] expr.op = "ColEq" -> Write(w, <<expr.left, "=", expr.right>>)
          [] expr.op = "Value" -> prepare_value(w, expr.vals[1])
          [] expr.op \in {"And", "Or"} -> Write(Each(Write(w, <<"(">>), 1), <<")">>)
          [] expr.op = "Not" -> prepare_simple_expr(Write(w, <<"NOT">>), expr.subs[1])

\* WHERE and the filters, joined by AND
RECURSIVE prepare_condition(_, _, _)
prepare_condition(w, filters, i) ==
    IF i > Len(filters) THEN w
    ELSE prepare_condition(
             prepare_simple_expr(Write(w, <<IF i = 1 THEN "WHERE" ELSE "AND">>), filters[i]),
             filters, i + 1)

RECURSIVE prepare_joins(_, _, _)
prepare_joins(w, joins, i) ==
    IF i > Len(joins) THEN w
    ELSE prepare_joins(
             prepare_simple_expr(Write(w, <<joins[i].kind, "\"" \o joins[i].table \o "\"", "ON">>),
                                 joins[i].on),
             joins, i + 1)

\* value_to_wasi_datatype: the DataType of a Value, or no DataType
value_to_wasi_datatype(value) ==
    CASE value.variant = "Bool" -> Some([tag |-> "Boolean", v |-> Some(value.v)])
      [] value.variant = "Int" -> Some([tag |-> "Int32", v |-> Some(value.v)])
      [] value.variant = "BigUnsigned" -> Some([tag |-> "Uint64", v |-> Some(value.v)])
      [] value.variant = "String" -> Some([tag |-> "Str", v |-> Some(value.v)])
      [] OTHER -> None

\* values_to_wasi_datatypes: all of them, or an error
values_to_wasi_datatypes(values) ==
    IF \E i \in DOMAIN values : value_to_wasi_datatype(values[i]) = None
    THEN None
    ELSE Some([i \in DOMAIN values |-> value_to_wasi_datatype(values[i])[1]])

\* what build returns for a writer: Ok(Query) or the error
QueryOf(w) ==
    LET params == values_to_wasi_datatypes(w.params)
    IN  IF params = None THEN [ok |-> FALSE, sql |-> << >>, params |-> << >>]
        ELSE [ok |-> TRUE, sql |-> w.sql, params |-> params[1]]

NewBuilder(kind, tbl) ==
    [kind |-> kind, table |-> tbl, columns |-> << >>, filters |-> << >>, joins |-> << >>,
     limit |-> None, offset |-> None, order |-> << >>, values |-> << >>]

Comma(strs) ==
    LET RECURSIVE Sep(_)
        Sep(i) == IF i > Len(strs) THEN << >>
                  ELSE (IF i = 1 THEN << >> ELSE <<",">>) \o <<strs[i]>> \o Sep(i + 1)
    IN  Sep(1)

\* SelectBuilder::build
SelectBuild(b) ==
    LET cols == IF b.columns = << >> THEN <<"*">>
                ELSE Comma([i \in DOMAIN b.columns |-> quoted_column(b.table, b.columns[i])])
        from == Write(NewWriter, <<"SELECT">> \o cols \o <<"FROM", "\"" \o b.table \o "\"">>)
        joined == prepare_joins(from, b.joins, 1)
        where == prepare_condition(joined, b.filters, 1)
        ordered == IF b.order = << >> THEN where
                   ELSE Write(where, <<"ORDER BY">> \o
                           Comma([i \in DOMAIN b.order |-> quoted_column(b.table, b.order[i])]))
        limited == IF b.limit = None THEN ordered
                   ELSE prepare_value(Write(ordered, <<"LIMIT">>), BigUnsignedValue(b.limit[1]))
        skipped == IF b.offset = None THEN limited
                   ELSE prepare_value(Write(limited, <<"OFFSET">>), BigUnsignedValue(b.offset[1]))
    IN  QueryOf(skipped)

\* InsertBuilder::build
InsertBuild(b) ==
    LET into == Write(NewWriter, <<"INSERT INTO", "\"" \o b.table \o "\"", "(">>
                   \o Comma([i \in DOMAIN b.values |-> "\"" \o b.values[i][1] \o "\""])
                   \o <<")", "VALUES", "(">>)
        row == prepare_values(into, [i \in DOMAIN b.values |-> b.values[i][2]], ",")
    IN  QueryOf(Write(row, <<")">>))

\* UpdateBuilder::build
UpdateBuild(b) ==
    LET RECURSIVE Sets(_, _)
        Sets(w, i) ==
            IF i > Len(b.values) THEN w
            ELSE Sets(prepare_value(Write(w, (IF i = 1 THEN << >> ELSE <<",">>)
                                              \o <<"\"" \o b.values[i][1] \o "\"", "=">>),
                                    b.values[i][2]),
                      i + 1)
        set == Sets(Write(NewWriter, <<"UPDATE", "\"" \o b.table \o "\"", "SET">>), 1)
    IN  QueryOf(prepare_condition(set, b.filters, 1))

\* DeleteBuilder::build
DeleteBuild(b) ==
    QueryOf(prepare_condition(Write(NewWriter, <<"DELETE FROM", "\"" \o b.table \o "\"">>),
                              b.filters, 1))

\* the filters, joins, limits and column values that the guest passes
FilterInputs ==
    { FilterEq("id", IntValue("7")),
      on(FilterLike("name", "%a%"), "roles"),
      FilterIn("id", << >>),
      FilterAnd(<<FilterGt("id", IntValue("100")), FilterNot(FilterIsNull("name"))>>),
      FilterOr(<< >>) }

JoinInputs ==
    { Join("INNER JOIN", "roles", FilterColEq("users", "id", "roles", "id")),
      Join("LEFT JOIN", "roles", FilterEq("name", StringValue("admin"))),
      Join("LEFT JOIN", "teams", on(FilterIn("id", <<IntValue("1"), IntValue("2")>>), "teams")) }

SetInputs == { <<"name", StringValue("x")>>, <<"id", IntValue("7")>> }

NoCalls(kind) ==
    [kind |-> kind, filters |-> << >>, joins |-> << >>, limit |-> None, offset |-> None,
     values |-> << >>]

\* Entity::select, ::insert, ::update, ::delete of the entity of table users
BuilderNew ==
    /\ builder = None
    /\ \E kind \in {"select", "insert", "update", "delete"} :
          /\ builder' = Some(IF kind = "select"
                             THEN [NewBuilder(kind, "users") EXCEPT !.columns = <<"id", "name">>]
                             ELSE NewBuilder(kind, "users"))
          /\ given' = Some(NoCalls(kind))
    /\ query' = None
    /\ UNCHANGED <<nonorm, flt, onCall, decoded>>

\* SelectBuilder::filter, UpdateBuilder::filter, DeleteBuilder::filter
BuilderFilter ==
    /\ builder # None
    /\ builder[1].kind \in {"select", "update", "delete"}
    /\ Len(builder[1].filters) < MaxFilters
    /\ \E f \in FilterInputs :
          /\ builder' = Some([builder[1] EXCEPT !.filters = Append(@, into_expr(f, builder[1].table))])
          /\ given' = Some([given[1] EXCEPT !.filters = Append(@, f)])
    /\ UNCHANGED <<nonorm, flt, onCall, query, decoded>>

\* SelectBuilder::join
BuilderJoin ==
    /\ builder # None
    /\ builder[1].kind = "select"
    /\ Len(builder[1].joins) < MaxJoins
    /\ \E j \in JoinInputs :
          /\ builder' = Some([builder[1] EXCEPT !.joins = Append(@, into_join_spec(j, builder[1].table))])
          /\ given' = Some([given[1] EXCEPT !.joins = Append(@, j)])
    /\ UNCHANGED <<nonorm, flt, onCall, query, decoded>>

\* SelectBuilder::limit, ::offset, ::order_by
BuilderLimit ==
    /\ builder # None
    /\ builder[1].kind = "select"
    /\ \/ /\ builder' = Some([builder[1] EXCEPT !.limit = Some("10")])
          /\ given' = Some([given[1] EXCEPT !.limit = Some("10")])
       \/ /\ builder' = Some([builder[1] EXCEPT !.offset = Some("5")])
          /\ given' = Some([given[1] EXCEPT !.offset = Some("5")])
       \/ /\ builder[1].order = << >>
          /\ builder' = Some([builder[1] EXCEPT !.order = <<"name">>])
          /\ given' = given
    /\ UNCHANGED <<nonorm, flt, onCall, query, decoded>>

\* InsertBuilder::set, UpdateBuilder::set
BuilderSet ==
    /\ builder # None
    /\ builder[1].kind \in {"insert", "update"}
    /\ Len(builder[1].values) < MaxSets
    /\ \E cv \in SetInputs :
          /\ builder' = Some([builder[1] EXCEPT !.values = Append(@, cv)])
          /\ given' = Some([given[1] EXCEPT !.values = Append(@, cv[2])])
    /\ UNCHANGED <<nonorm, flt, onCall, query, decoded>>

\* build: the builder is used up and the Query is there
Build ==
    /\ builder # None
    /\ query' = Some(CASE builder[1].kind = "select" -> SelectBuild(builder[1])
                       [] builder[1].kind = "insert" -> InsertBuild(builder[1])
                       [] builder[1].kind = "update" -> UpdateBuild(builder[1])
                       [] builder[1].kind = "delete" -> DeleteBuild(builder[1]))
    /\ builder' = None
    /\ UNCHANGED <<nonorm, flt, onCall, given, decoded>>

(***************************************************************************)
(* SpecOrm: the guest makes a builder, calls its methods and builds.       *)
(***************************************************************************)
NextOrm == BuilderNew \/ BuilderFilter \/ BuilderJoin \/ BuilderLimit \/ BuilderSet \/ Build

SpecOrm == Init /\ [][NextOrm]_vars

(***************************************************************************)
(* Rows.  A DataType is its tag and its optional content; a Row is the     *)
(* sequence of its fields; an entity is declared by its fields in order:   *)
(* the column, the type to fetch and whether the field is an Option.       *)
(***************************************************************************)
MaxFields == 3

DataType(tag, v) == [tag |-> tag, v |-> v]
Field(name, value) == [name |-> name, value |-> value]
Declared(name, ty, optional) == [name |-> name, ty |-> ty, optional |-> optional]

Ok(v) == [ok |-> TRUE, v |-> v, error |-> ""]
Err(error) == [ok |-> FALSE, v |-> None, error |-> error]

\* row_field: the value of the first field of that name
row_field(row, name) ==
    IF \E i \in DOMAIN row : row[i].name = name
    THEN Ok(<<row[CHOOSE i \in DOMAIN row :
                   /\ row[i].name = name
                   /\ \A k \in 1..(i - 1) : row[k].name # name].value>>)
    ELSE Err("missing column '" \o name \o "'")

is_null(value) == value.v = None

\* as_i64, as_string, ...: the content when the tag is the one of the type
\* and the value is not null
as_type(ty, value) ==
    IF value.tag = ty /\ value.v # None
    THEN Ok(value.v)
    ELSE Err("expected " \o ty \o " data type")

\* impl_fetch_value!: $convert(row_field(row, col)?)
fetch(ty, row, col) ==
    LET field == row_field(row, col)
    IN  IF field.ok THEN as_type(ty, field.v[1]) ELSE field

fetch_option_strict(ty, row, col) ==
    LET field == row_field(row, col)
    IN  IF ~field.ok THEN field
        ELSE IF is_null(field.v[1]) THEN Ok(None)
        ELSE fetch(ty, row, col)

\* impl FetchValue for Option<T>: a field that is there and not null is
\* fetched as T, anything else is none
fetch_option(ty, row, col) ==
    LET field == row_field(row, col)
    IN  IF field.ok /\ ~is_null(field.v[1])
        THEN fetch(ty, row, col)
        ELSE Ok(None)

\* entity!: from_row fetches the fields in the order of their declaration
\* and returns the first error
RECURSIVE from_row(_, _, _)
from_row(decl, row, i) ==
    IF i > Len(decl) THEN Ok(<< >>)
    ELSE LET d == decl[i]
             got == IF d.optional THEN fetch_option(d.ty, row, d.name)
                    ELSE fetch(d.ty, row, d.name)
         IN  IF ~got.ok THEN got
             ELSE LET rest == from_row(decl, row, i + 1)
                  IN  IF rest.ok THEN Ok(<<got.v>> \o rest.v) ELSE rest

\* the entities: one with an optional field at the end, one with an
\* optional field at the start
Entities ==
    { <<Declared("id", "Int64", FALSE), Declared("name", "Str", FALSE), Declared("nick", "Str", TRUE)>>,
      <<Declared("nick", "Str", TRUE), Declared("id", "Int64", FALSE)>> }

FieldInputs ==
    { Field(n, v) : n \in {"id", "name", "nick"},
                    v \in {DataType("Int64", Some("1")), DataType("Str", Some("a")), DataType("Str", None)} }

Rows == UNION { [1..n -> FieldInputs] : n \in 0..MaxFields }

\* the guest decodes a row
FromRow ==
    /\ decoded = None
    /\ \E decl \in Entities, row \in Rows :
          decoded' = Some([entity |-> decl, row |-> row, result |-> from_row(decl, row, 1)])
    /\ UNCHANGED <<nonorm, flt, onCall, builder, given, query>>

\* the guest is done with the entity or the error
RowDrop ==
    /\ decoded # None
    /\ decoded' = None
    /\ UNCHANGED <<nonorm, flt, onCall, builder, given, query>>

(***************************************************************************)
(* SpecRow: the guest decodes rows.                                        *)
(***************************************************************************)
NextRow == FromRow \/ RowDrop

SpecRow == Init /\ [][NextRow]_vars

(***************************************************************************)
(* Outbound HTTP.  A header is its name as it is written and its value; a  *)
(* HeaderMap keeps the names in lower case, in the order of insertion,     *)
(* and may hold several values of one name.                                *)
(***************************************************************************)
MaxHeaders == 3

Header(name, value) == [name |-> name, value |-> value]

\* HeaderName: names compare without case; the map keeps them in lower case
LowerCase ==
    [n \in {"Connection", "Host", "Proxy-Authenticate", "Proxy-Authorization", "Transfer-Encoding",
            "Upgrade", "Keep-Alive", "Proxy-Connection", "HTTP2-Settings", "X-Safe", "Client-Cert",
            "Content-Type"} |->
        CASE n = "Connection" -> "connection"
          [] n = "Host" -> "host"
          [] n = "Proxy-Authenticate" -> "proxy-authenticate"
          [] n = "Proxy-Authorization" -> "proxy-authorization"
          [] n = "Transfer-Encoding" -> "transfer-encoding"
          [] n = "Upgrade" -> "upgrade"
          [] n = "Keep-Alive" -> "keep-alive"
          [] n = "Proxy-Connection" -> "proxy-connection"
          [] n = "HTTP2-Settings" -> "http2-settings"
          [] n = "X-Safe" -> "x-safe"
          [] n = "Client-Cert" -> "client-cert"
          [] n = "Content-Type" -> "content-type"]

HeaderName(name) == IF name \in DOMAIN LowerCase THEN LowerCase[name] ELSE name

\* the HeaderMap of the headers of a message
HeaderMap(headers) == [i \in DOMAIN headers |-> Header(HeaderName(headers[i].name), headers[i].value)]

\* HeaderMap::remove: every value of the name goes
HeaderRemove(map, name) == SelectSeq(map, LAMBDA h : h.name # HeaderName(name))

HeaderGet(map, name) == SelectSeq(map, LAMBDA h : h.name = HeaderName(name))

FORBIDDEN_HEADERS_std ==
    <<"connection", "host", "proxy-authenticate", "proxy-authorization", "transfer-encoding",
      "upgrade">>

FORBIDDEN_HEADERS ==
    <<"connection", "host", "proxy-authenticate", "proxy-authorization", "transfer-encoding",
      "upgrade", "keep-alive", "proxy-connection", "http2-settings">>

\* for header in &FORBIDDEN_HEADERS { headers.remove(header); }
RECURSIVE RemoveForbidden(_, _)
RemoveForbidden(map, i) ==
    IF i > Len(FORBIDDEN_HEADERS) THEN map
    ELSE RemoveForbidden(HeaderRemove(map, FORBIDDEN_HEADERS[i]), i + 1)

\* the headers that a guest puts on its request; the certificate is good
\* Base64 of a PEM identity or it is not
RequestHeaders ==
    { << >>,
      <<Header("Host", "example.org"), Header("X-Safe", "v")>>,
      <<Header("Client-Cert", "good"), Header("Content-Type", "t")>>,
      <<Header("Client-Cert", "bad")>> }

\* the headers that an upstream may send
UpstreamHeader ==
    { Header("Connection", "keep-alive"), Header("host", "example.org"),
      Header("Proxy-Authenticate", "Basic"), Header("proxy-authorization", "Basic abc"),
      Header("Transfer-Encoding", "chunked"), Header("Upgrade", "websocket"),
      Header("Keep-Alive", "timeout=5"), Header("Proxy-Connection", "close"),
      Header("HTTP2-Settings", "AAMAAABk"),
      Header("X-Safe", "v"), Header("x-safe", "w"), Header("Content-Type", "t") }

UpstreamHeaders == UNION { [1..n -> UpstreamHeader] : n \in 0..MaxHeaders }

\* send_request up to the request on the wire: the Client-Cert header is
\* taken off and decoded, the Host header is taken off
HttpSend ==
    /\ http.pc = "idle"
    /\ \E headers \in RequestHeaders :
          LET map == HeaderMap(headers)
              cert == HeaderGet(map, "Client-Cert")
          IN  IF cert # << >> /\ cert[1].value = "bad"
              THEN http' = [IdleHttp EXCEPT !.pc = "done", !.error = "InternalError"]
              ELSE http' = [IdleHttp EXCEPT
                               !.pc = "sent",
                               !.egress = HeaderRemove(HeaderRemove(map, "Client-Cert"), "Host")]
    /\ UNCHANGED nonhttp

\* the upstream answers: the response goes back without the forbidden
\* headers
HttpRespond ==
    /\ http.pc = "sent"
    /\ \E headers \in UpstreamHeaders :
          http' = [http EXCEPT !.pc = "done",
                               !.upstream = headers,
                               !.response = Some(RemoveForbidden(HeaderMap(headers), 1))]
    /\ UNCHANGED nonhttp

\* the request fails: reqwest_error gives the error code
HttpError ==
    /\ http.pc = "sent"
    /\ \E code \in {"ConnectionTimeout", "ConnectionRefused", "HttpRequestUriInvalid", "InternalError"} :
          http' = [http EXCEPT !.pc = "done", !.error = code]
    /\ UNCHANGED nonhttp

\* the guest has the response or the error
HttpReturn ==
    /\ http.pc = "done"
    /\ http' = IdleHttp
    /\ UNCHANGED nonhttp

(***************************************************************************)
(* SpecHttp: a guest fetches, one request after the other.                 *)
(***************************************************************************)
NextHttp == HttpSend \/ HttpRespond \/ HttpError \/ HttpReturn

SpecHttp == Init /\ [][NextHttp]_vars

(***************************************************************************)
(* SpecFilter: the guest puts filters together.                            *)
(***************************************************************************)
NextFilter == FilterNew \/ FilterOn \/ FilterCombine \/ FilterDrop

SpecFilter == Init /\ [][NextFilter]_vars

\* the table qualifiers of the leaves of a filter, from left to right
RECURSIVE Qualifiers(_)
Qualifiers(filter) ==
    IF filter.subs = << >> THEN <<filter.tbl>>
    ELSE LET RECURSIVE Cat(_)
             Cat(i) == IF i > Len(filter.subs) THEN << >>
                       ELSE Qualifiers(filter.subs[i]) \o Cat(i + 1)
         IN  Cat(1)

\* C16: f.on(t) differs from f only in the table: a comparison leaf gets
\* the table t and keeps its column and its values; And, Or, Not and ColEq
\* come back unchanged, so the leaves below a combinator keep their tables.
C16_OnOnlyQualifies ==
    onCall # None =>
        LET f == onCall[1].filter
            t == onCall[1].table
            r == flt[1]
        IN  IF f.op \in ComparisonOps
            THEN /\ r.tbl = Some(t)
                 /\ r.op = f.op /\ r.col = f.col /\ r.vals = f.vals
            ELSE /\ r = f
                 /\ Qualifiers(r) = Qualifiers(f)

\* on("roles") was called on an And of a leaf of table users and a leaf with
\* no table
C16_Witness ==
    /\ onCall # None
    /\ onCall[1].table = "roles"
    /\ onCall[1].filter.op = "And"
    /\ Qualifiers(onCall[1].filter) = <<Some("users"), None>>

\* on("roles") was called on a leaf of table users
C16_LeafWitness ==
    /\ onCall # None
    /\ onCall[1].table = "roles"
    /\ onCall[1].filter.op = "In"
    /\ onCall[1].filter.tbl = Some("users")
    /\ flt[1].tbl = Some("roles")

\* the placeholders of an SQL text, from left to right
IsPlaceholder(token) == \E n \in 1..20 : token = Placeholder(n)
Placeholders(sql) == SelectSeq(sql, IsPlaceholder)

\* the values that a filter binds, from left to right; an In without values
\* binds the two constants of its degenerate clause, an empty And or Or its
\* truth value
RECURSIVE BoundValues(_)
BoundValues(filter) ==
    LET RECURSIVE Cat(_)
        Cat(i) == IF i > Len(filter.subs) THEN << >>
                  ELSE BoundValues(filter.subs[i]) \o Cat(i + 1)
    IN  CASE filter.op = "In" /\ filter.vals = << >> -> <<IntValue("1"), IntValue("2")>>
          [] filter.op = "And" /\ filter.subs = << >> -> <<BoolValue("true")>>
          [] filter.op = "Or" /\ filter.subs = << >> -> <<BoolValue("false")>>
          [] filter.op \in {"And", "Or", "Not"} /\ filter.subs # << >> -> Cat(1)
          [] OTHER -> filter.vals

RECURSIVE FilterValues(_)
FilterValues(filters) ==
    IF filters = << >> THEN << >> ELSE BoundValues(Head(filters)) \o FilterValues(Tail(filters))

JoinValues(joins) == FilterValues([i \in DOMAIN joins |-> joins[i].on])

LimitValues(g) ==
    (IF g.limit = None THEN << >> ELSE <<BigUnsignedValue(g.limit[1])>>)
    \o (IF g.offset = None THEN << >> ELSE <<BigUnsignedValue(g.offset[1])>>)

DataTypes(values) == [i \in DOMAIN values |-> value_to_wasi_datatype(values[i])[1]]

\* the placeholders of the query are $1..$n, in this order, n the number
\* of params
C13_Numbered ==
    LET ph == Placeholders(query[1].sql)
    IN  /\ Len(ph) = Len(query[1].params)
        /\ \A i \in DOMAIN ph : ph[i] = Placeholder(i)

\* the params of an INSERT, UPDATE or DELETE: the column values, then the
\* filter values
C13_WriteParams ==
    given[1].kind # "select" =>
        query[1].params = DataTypes(given[1].values \o FilterValues(given[1].filters))

\* C13 as stated: the placeholders are $1..$n, n the number of params, and
\* the params of a SELECT are the filter values in filter-insertion order,
\* then the limit, then the offset.
C13_AsStated ==
    (query # None /\ query[1].ok) =>
        /\ C13_Numbered
        /\ C13_WriteParams
        /\ given[1].kind = "select" =>
              query[1].params = DataTypes(FilterValues(given[1].filters) \o LimitValues(given[1]))

\* C13: the placeholders are $1..$n, n the number of params, numbered from
\* left to right, and params[i-1] is the value bound at $i; the params of a
\* SELECT are the values of the on filters of its joins in join order, then
\* the filter values in filter-insertion order, then the limit, then the
\* offset.
C13_PlaceholdersMatchParams ==
    (query # None /\ query[1].ok) =>
        /\ C13_Numbered
        /\ C13_WriteParams
        /\ given[1].kind = "select" =>
              query[1].params = DataTypes(JoinValues(given[1].joins)
                                          \o FilterValues(given[1].filters)
                                          \o LimitValues(given[1]))

\* a SELECT was built with a join whose on filter has a value, two filters,
\* a limit and an offset
C13_Witness ==
    /\ query # None /\ query[1].ok
    /\ given[1].kind = "select"
    /\ JoinValues(given[1].joins) # << >>
    /\ Len(given[1].filters) = 2
    /\ given[1].limit # None /\ given[1].offset # None
    /\ Len(query[1].params) >= 5

\* the on filter of the i-th join follows its ON in the SQL text with the
\* column qualified by tbl
OnRenderedWith(i, tbl) ==
    LET j == given[1].joins[i]
        ons == SelectSeq([k \in DOMAIN query[1].sql |->
                             IF query[1].sql[k] = "ON" /\ k < Len(query[1].sql)
                             THEN query[1].sql[k + 1] ELSE ""],
                         LAMBDA token : token # "")
    IN  ons[i] = quoted_column(tbl, j.on.col)

\* C15: in a SELECT with a join, a comparison leaf of the on filter that has
\* no table is rendered with the name of the joined table, not with the name
\* of the primary table.
C15_OnDefaultsToJoinedTable ==
    (query # None /\ query[1].ok /\ given[1].kind = "select") =>
        \A i \in DOMAIN given[1].joins :
            LET j == given[1].joins[i]
            IN  (j.on.op \in ComparisonOps /\ j.on.tbl = None) => OnRenderedWith(i, j.table)

\* what the code does: such a leaf is rendered with the table of the builder
C15_OnDefaultsToPrimaryTable ==
    (query # None /\ query[1].ok /\ given[1].kind = "select") =>
        \A i \in DOMAIN given[1].joins :
            LET j == given[1].joins[i]
            IN  (j.on.op \in ComparisonOps /\ j.on.tbl = None) => OnRenderedWith(i, "users")

\* a SELECT on users was built with a join of roles whose on filter is a
\* leaf without a table
C15_Witness ==
    /\ query # None /\ query[1].ok /\ given[1].kind = "select"
    /\ \E i \in DOMAIN given[1].joins :
          /\ given[1].joins[i].table = "roles"
          /\ given[1].joins[i].on.op = "Eq"
          /\ given[1].joins[i].on.tbl = None

Present(row, name) == \E i \in DOMAIN row : row[i].name = name
IsMissing(result) == ~result.ok /\ \E n \in {"id", "name", "nick"} : result.error = "missing column '" \o n \o "'"

FirstFailure(d) ==
    LET fails(i) == LET f == d.entity[i]
                        field == row_field(d.row, f.name)
                    IN  IF ~field.ok THEN ~f.optional
                        ELSE IF f.optional /\ is_null(field.v[1]) THEN FALSE
                        ELSE ~as_type(f.ty, field.v[1]).ok
    IN  IF \E i \in DOMAIN d.entity : fails(i)
        THEN Some(CHOOSE i \in DOMAIN d.entity : fails(i) /\ \A k \in 1..(i - 1) : ~fails(k))
        ELSE None

HopByHop ==
    {"Connection", "Host", "Proxy-Authenticate", "Proxy-Authorization", "Transfer-Encoding",
     "Upgrade", "keep-alive", "proxy-connection", "http2-settings"}

IsHopByHop(name) == \E n \in HopByHop : HeaderName(name) = HeaderName(n)

\* C17: a response that fetch returns has none of the nine hop-by-hop
\* headers, whatever the upstream sent, and has every other header of the
\* upstream with its value.
C17_ResponseStripped ==
    (http.pc = "done" /\ http.response # None) =>
        LET resp == http.response[1]
            passed == SelectSeq(http.upstream, LAMBDA h : ~IsHopByHop(h.name))
        IN  /\ \A i \in DOMAIN resp : ~IsHopByHop(resp[i].name)
            /\ Len(resp) = Len(passed)
            /\ \A i \in DOMAIN passed :
                  /\ resp[i].name = HeaderName(passed[i].name)
                  /\ resp[i].value = passed[i].value

\* the upstream sent Keep-Alive, X-Safe and HTTP2-Settings and the response
\* holds X-Safe alone
C17_Witness ==
    /\ http.pc = "done" /\ http.response # None
    /\ \E i \in DOMAIN http.upstream : http.upstream[i].name = "Keep-Alive"
    /\ \E i \in DOMAIN http.upstream : http.upstream[i].name = "HTTP2-Settings"
    /\ http.response[1] = <<Header("x-safe", "v")>>

\* the events that the dispatcher has received, and the events on the bus
\* that it has not received yet, in the order of the bus
Received == [i \in {j \in Invs : inv[j].event # None} |-> inv[i].event[1]]
Waiting == pending

\* C18: for any one peer, the events of its frames are on the bus in the
\* order in which the frames were received from it, whatever the other
\* peers publish at the same time.
C18_PeerOrderKept ==
    /\ \A i, j \in DOMAIN Waiting :
          (i < j /\ Waiting[i].from[1].task = Waiting[j].from[1].task)
              => Waiting[i].from[1].n < Waiting[j].from[1].n
    /\ \A i \in DOMAIN Received, j \in DOMAIN Waiting :
          Received[i].from[1].task = Waiting[j].from[1].task
              => Received[i].from[1].n < Waiting[j].from[1].n
    /\ \A i, j \in DOMAIN Received :
          (i < j /\ Received[i].from[1].task = Received[j].from[1].task)
              => Received[i].from[1].n < Received[j].from[1].n

\* two events of peer 1 are on the bus with an event of peer 2 between them
C18_Witness ==
    /\ Len(pending) >= 3
    /\ \E i, j, k \in DOMAIN pending :
          /\ i < j /\ j < k
          /\ pending[i].from[1].task = 1
          /\ pending[j].from[1].task = 2
          /\ pending[k].from[1].task = 1

\* the numbers on the bus of the events received, then of the events that
\* wait, in the order of the subscription
SeqOf(events) == [i \in DOMAIN events |-> events[i].from[1].seq]
Delivered == SeqOf(Received) \o SeqOf(Waiting)

\* C19: a subscriber receives the published events in publish order, some
\* of them left out; when more than BUS_CAPACITY events wait for it the
\* oldest ones are skipped, the stream goes on and later events are still
\* delivered; a publish is never held back and never fails on account of
\* the subscriber.
C19_LagSkipsOldest ==
    /\ LET d == Delivered
       IN  \A i \in 1..(Len(d) - 1) : d[i] < d[i + 1]
    /\ Len(Waiting) <= BUS_CAPACITY
    /\ LET first == seen.published - Len(Waiting)
       IN  \A i \in DOMAIN Waiting : Waiting[i].from[1].seq = first + i
    /\ run = "looping"
    /\ lagged => ENABLED RecvLagged
    /\ (~lagged /\ Waiting # << >> /\ \E i \in Invs : inv[i].pc = "free")
          => ENABLED (\E i \in Invs : Dispatch(i))
    /\ (pc[1] = "open" /\ MayPublish)
          => ENABLED BinaryStep({1}, BUS_CAPACITY + 1, {"order"})

\* the dispatcher received the first event, the peer published past the
\* capacity, and the dispatcher passed the lag and received a second event:
\* that one is not the second one published
C19_Witness ==
    /\ seen.published > BUS_CAPACITY + 1
    /\ ~lagged
    /\ inv[1].event # None /\ inv[1].event[1].from[1].seq = 1
    /\ inv[2].event # None /\ inv[2].event[1].from[1].seq > 2

(***************************************************************************)
(* The life of an entry of the ConnectionMap.                              *)
(***************************************************************************)
\* the entry whose sender is the channel of task t is in the map
HasEntry(t) == \E a \in DOMAIN connections : connections[a].sender = t

\* the task's handshake succeeded and save_socket registered it while the
\* task has not yet run its cleanup
Registered(t) == pc[t] \in {"open", "closing"}

\* a send starts: the step that locks the map and collects the senders
SendStarts(i) == send[i].pc = "idle" /\ send'[i].pc = "enqueue"

\* a message is put on the channel of task t
Enqueued(t) == chan'[t].open /\ Len(chan'[t].queue) > Len(chan[t].queue)

\* C20: an entry of the ConnectionMap belongs to a peer whose handshake
\* succeeded (a task whose handshake failed has none); once a peer has
\* disconnected, sent a Close frame or had its outbound forwarding fail,
\* its entry is eventually removed; a send that starts when the entry is
\* gone does not have the peer among its targets, and messages are only
\* enqueued for the targets collected at the start of a send.
C20_EntryLifecycle ==
    /\ [](\A t \in Tasks : HasEntry(t) => Registered(t) /\ connections[addrOf[t]].sender = t)
    /\ [](\A t \in Tasks : pc[t] \in {"failed", "closed"} => ~HasEntry(t))
    /\ \A t \in Tasks : (pc[t] = "closing") ~> ~HasEntry(t)
    /\ [][\A i \in Invs : SendStarts(i) => \A t \in send'[i].clients : HasEntry(t)]_vars
    /\ [][\A t \in Tasks : Enqueued(t) => \E i \in Invs : t \in send[i].clients]_vars

\* the first peer has left and its cleanup has run; the second peer is
\* registered, and a send is under way whose only target is the second peer
C20_Witness ==
    /\ pc[1] = "closed" /\ ~HasEntry(1)
    /\ pc[2] = "open" /\ HasEntry(2)
    /\ send[1].pc = "enqueue" /\ send[1].clients = {2} /\ send[1].failures = 0

(***************************************************************************)
(* What send does with peers whose channel is closed.                      *)
(***************************************************************************)
\* send tries the channel of task t: one turn of the loop over the clients
Tries(i, t) == t \in send[i].clients /\ t \notin send'[i].clients

C21_Try == \A i \in Invs, t \in Tasks : Tries(i, t) => chan[t].open

C21_Start ==
    \A i \in Invs : SendStarts(i) =>
        \A a \in DOMAIN connections' : chan[connections'[a].sender].open

\* C21: when a send has collected its targets no peer with a closed
\* outbound channel is left in the ConnectionMap, and every try_send of a
\* send is made on a channel that is not closed.
C21_SendPrunesClosed == [][C21_Start /\ C21_Try]_vars

(***************************************************************************)
(* The connection cap and the handshake.                                   *)
(***************************************************************************)
\* the handshake of task t completes: accept_async returns Ok
Handshakes(t) == pc[t] = "accepted" /\ pc'[t] = "handshaken"

\* the connection of task t is turned away by save_socket
Rejects(t) == pc[t] # "rejected" /\ pc'[t] = "rejected"

C22_Step ==
    \A t \in Tasks :
        /\ Handshakes(t) => ConnLen < MAX_CONNECTIONS
        /\ Rejects(t) => pc[t] = "accepted"

\* C22: no WebSocket handshake is performed while the ConnectionMap holds
\* MAX_CONNECTIONS peers, and a connection that is rejected for capacity is
\* rejected before its handshake: it never reached the end of a handshake.
C22_CapBeforeHandshake == [][C22_Step]_vars

(***************************************************************************)
(* The result of a send.                                                   *)
(***************************************************************************)
\* the send of invocation i returns to the guest
SendReturns(i) == send[i].pc = "enqueue" /\ send'[i].pc = "returned"

C23_Start == \A i \in Invs : SendStarts(i) => send'[i].failures = 0

C23_Try ==
    \A i \in Invs, t \in Tasks :
        (Tries(i, t) /\ send[i].groups = None) =>
            IF chan[t].open
            THEN /\ chan'[t].queue = Append(chan[t].queue, Binary(send[i].data))
                 /\ send'[i].failures = send[i].failures
            ELSE /\ chan'[t] = chan[t]
                 /\ send'[i].failures = send[i].failures + 1

C23_Return ==
    \A i \in Invs :
        (SendReturns(i) /\ send[i].groups = None) =>
            /\ send[i].clients = {}
            /\ send'[i].failures = send[i].failures
            /\ send'[i].result = IF send[i].failures >= 1 THEN "Err" ELSE "Ok"

\* C23: a send without groups tries every target it collected once, without
\* waiting; a try on an open channel enqueues the message and a try that
\* fails is counted; the send returns only when every target was tried, with
\* an error when at least one try failed and with success otherwise.
C23_SendAggregates == [][C23_Start /\ C23_Try /\ C23_Return]_vars

\* a send to all peers has returned an error: one of its two targets had
\* gone, the other one has the message in its queue
C23_Witness ==
    /\ send[1].pc = "returned" /\ send[1].groups = None
    /\ send[1].result = "Err" /\ send[1].failures = 1
    /\ pc[1] = "closed"
    /\ pc[2] = "open" /\ chan[2].queue = <<Binary(send[1].data)>>

C24_Return == \A i \in Invs : SendReturns(i) => send'[i].result = "Ok"

\* C24: a send returns success to the guest whatever the number of peers
\* for which the enqueue failed; the failures are only counted.
C24_SilentDrop == [][C24_Return]_vars

(***************************************************************************)
(* Who changes the group set of a peer.                                    *)
(***************************************************************************)
\* the entry at address a stays the entry of the same peer and its group
\* set is not what it was
GroupsChange(a) ==
    /\ a \in DOMAIN connections /\ a \in DOMAIN connections'
    /\ connections'[a].sender = connections[a].sender
    /\ connections'[a].groups # connections[a].groups

C25_Writer ==
    \A a \in Addrs :
        GroupsChange(a) =>
            /\ frame' # frame
            /\ frame'.task = connections[a].sender
            /\ frame'.kind = "text" /\ IsSubscribe(frame'.payload)
            /\ connections'[a].groups = GroupSet(frame'.payload)
            /\ \A b \in Addrs \ {a} : ~GroupsChange(b)
            /\ send' = send

C25_Reader ==
    \A i \in Invs :
        SendStarts(i) =>
            /\ connections' = connections
            /\ send'[i].clients =
                  {connections[a].sender : a \in
                      {b \in DOMAIN connections :
                          ExpectedGroups(lastSub[connections[b].sender].text)
                              \cap send'[i].groups[1] # {}}}

\* C25: the group set of a registered peer changes only in a step in which
\* that peer's own task handles a subscribe frame, and then to the set of
\* that frame; no other peer's set changes in that step and no send changes
\* a set.  At every moment the set in the map is the whole set of the peer's
\* latest subscribe frame, and a send selects its targets with exactly these
\* sets.
C25_GroupsOwnTask == []C3_Latest /\ [][C25_Writer /\ C25_Reader]_vars

\* two peers are registered; the first one moved from "lobby" to "chat"
\* while a send to "lobby" was enumerating: the send has the second peer
\* only
C25_Witness ==
    /\ pc[1] = "open" /\ pc[2] = "open"
    /\ lastSub[1].ever = {"lobby", "chat"} /\ lastSub[1].text = "sub[chat]"
    /\ lastSub[2].text = "sub[lobby]"
    /\ send[1].pc = "enqueue" /\ send[1].clients = {2}

(***************************************************************************)
(* Handles the guest dropped.                                              *)
(***************************************************************************)
\* C26: a resource whose handle the guest has dropped, whatever its kind,
\* is not in the resource table of its store any more.
C26_DroppedRemoved ==
    \A i \in Invs : \A h \in DOMAIN table[i] : table[i][h].guest

(***************************************************************************)
(* The length of a peer's outbound queue.                                  *)
(***************************************************************************)
\* C27: the messages queued for a peer and not yet forwarded never number
\* more than the channel has room for, the buffer of CHANNEL_BUFFER
\* messages and one slot for every Sender alive, however many sends target
\* a peer that does not drain its queue.
C27_QueueBounded ==
    \A t \in Tasks : Len(chan[t].queue) <= CHANNEL_BUFFER + NumSenders(t)

(***************************************************************************)
(* The accept loop after a rejection.                                      *)
(***************************************************************************)
\* task t is the one that serves the next connection the listener accepts
NextToAccept(t) == pc[t] = "listening" /\ \A u \in Tasks : u < t => pc[u] # "listening"

C28_LoopGoesOn ==
    \A t \in Tasks :
        (NextToAccept(t) /\ \E u \in Tasks : pc[u] = "rejected")
            => ENABLED (\E a \in Addrs : Accept(t, a))

C28_Admits ==
    \A t \in Tasks :
        (pc[t] = "handshaken" /\ pc'[t] # "handshaken" /\ ConnLen < MAX_CONNECTIONS)
            => /\ pc'[t] = "open"
               /\ addrOf[t] \in DOMAIN connections'
               /\ connections'[addrOf[t]].sender = t

\* C28: after a connection was rejected for capacity the listener still
\* accepts the next connection, and a connection whose save_socket runs
\* when the map has room again is admitted, whatever was rejected before.
C28_ServerContinues == []C28_LoopGoesOn /\ [][C28_Admits]_vars

\* the first connection was rejected with MAX_CONNECTIONS peers in the map;
\* the second one is registered and the map is full again
C28_Witness ==
    /\ pc[1] = "rejected"
    /\ pc[2] = "open" /\ HasEntry(2)
    /\ ConnLen = MAX_CONNECTIONS

(***************************************************************************)
(* Whose entry a cleanup removes.                                          *)
(***************************************************************************)
C29_Remove ==
    \A a \in DOMAIN connections :
        a \notin DOMAIN connections' =>
            LET t == connections[a].sender
            IN  pc[t] = "closing" /\ pc'[t] = "closed"

\* C29: an entry leaves the ConnectionMap only in the cleanup of the task
\* that inserted it, so a connection registered under the address of an
\* earlier one keeps its entry when the earlier task cleans up, and a peer
\* whose task is running has its entry in the map.
C29_CleanupOwnEntry ==
    /\ [](\A t \in Tasks : pc[t] = "open" => HasEntry(t))
    /\ [][C29_Remove]_vars

(***************************************************************************)
(* Sends and the bus.                                                      *)
(***************************************************************************)
\* the invocations that the dispatcher spawned for an event
WsInvs == {i \in Invs : inv[i].kind = "ws"}

\* the numbers of the events that were dispatched or wait on the bus
OnBusOrTaken == {inv[i].event[1].from[1].seq : i \in WsInvs}
                    \cup {pending[k].from[1].seq : k \in DOMAIN pending}

C30_SendStep ==
    \A i \in Invs :
        send'[i] # send[i] => pending' = pending /\ lagged' = lagged /\ inv' = inv

C30_Spawn ==
    \A i \in Invs :
        (inv[i].pc = "free" /\ inv'[i].kind = "ws") =>
            /\ pending # <<>>
            /\ inv'[i].event = Some(Head(pending))
            /\ pending' = Tail(pending)
            /\ \A j \in Invs \ {i} : inv'[j] = inv[j]

C30_BusGrows ==
    Len(pending') > Len(pending) =>
        /\ seen'.published = seen.published + 1
        /\ pending' = Append(pending, pending'[Len(pending')])
        /\ pending'[Len(pending')].from[1].seq = seen'.published
        /\ send' = send

C30_OnePerFrame ==
    /\ Cardinality(OnBusOrTaken) = Cardinality(WsInvs) + Len(pending)
    /\ OnBusOrTaken = (seen.published - Cardinality(OnBusOrTaken) + 1)..seen.published

\* C30: no step of a send puts an event on the bus or starts an invocation;
\* an event comes onto the bus only with a frame of a peer, and a handler
\* invocation is spawned only by taking the oldest event from the bus.  So
\* every frame published since the dispatcher subscribed has one event,
\* which either waits or was given to exactly one invocation, whatever the
\* invocations send.
C30_NoFeedback == []C30_OnePerFrame /\ [][C30_SendStep /\ C30_Spawn /\ C30_BusGrows]_vars

\* one frame was published; its invocation connected a socket, sent the
\* event to all peers and the send returned: both peers have the message,
\* the bus is empty and no second invocation was spawned
C30_Witness ==
    /\ seen.published = 1 /\ pending = <<>>
    /\ WsInvs = {1} /\ inv[2].pc = "free"
    /\ send[1].pc = "returned" /\ send[1].result = "Ok"
    /\ chan[1].queue # <<>> /\ chan[2].queue # <<>>

=============================================================================
